---- MODULE Spec2Model ----
(***************************************************************************)
(* ClineShield: the event log store (metrics/writer.ts, metrics/reader.ts) *)
(* the watcher that feeds the enrichment dispatcher (extension.ts), the    *)
(* enrichment job, the rules engine and the hooks' analyzer and sanity      *)
(* check.                                                                  *)
(*                                                                         *)
(* Spec      - the log store: one process appending through its write      *)
(*             queue, every I/O step of doAppend on its own; a reader.     *)
(* SpecMulti - two processes appending to one log, either may crash.       *)
(* SpecRead  - the readers over a log holding any content.                 *)
(* SpecWatch - the extension process: watcher notifications, dedup set,    *)
(*             dispatcher queue and drain loop.                            *)
(* SpecDispatch, SpecDispatchLive - the dispatcher fed with the qualifying *)
(*             events one by one; the second with its timers firing.       *)
(* SpecJob   - processRiskEvent (llmTrigger.ts), every await on its own.   *)
(* SpecRestart - SpecWatch with the extension host restarting.             *)
(* SpecScore - computeRiskScore (rulesEngine.ts) over the inputs around    *)
(*             its thresholds.                                             *)
(* SpecAnalyze - analyzeStructuralChange (clineshield-analyze.js) over     *)
(*             pairs of small snapshots, missing and unreadable files.     *)
(* SpecPercent - the same over snapshots of many functions, for the        *)
(*             percentage.                                                 *)
(* SpecSanity - clineshield-sanity.js run again and again on one file.     *)
(* SpecLive  - Spec with the I/O steps of pending appends taken in the end. *)
(* SpecSession - the dispatcher fed within the session of each event, with *)
(*             the session ending and a new one starting.                  *)
(* SpecWatchLive - SpecWatch with clock, wake-ups and runs making progress.*)
(* SpecQuiesce - the watcher over a log the hooks append to no more, with  *)
(*             clock, wake-ups and runs making progress.                   *)
(* SpecDedup - the watcher over a log with two events of one timestamp.    *)
(***************************************************************************)
EXTENDS Integers, Sequences, FiniteSets, Bags, TLC

VARIABLES
    dirExists,   \* the .cline-shield directory exists
    fs,          \* path -> [exists, data]: metrics.json and the temp files
    calls,       \* process -> sequence of appendEvent calls (the promise chain)
    alive,       \* process -> FALSE once the process has crashed
    budget,      \* how many more appendEvent calls the model lets be made
    raced,       \* an appendEvent call was made while an earlier one was pending
    lastRead,    \* the reader call made in this state and what it returned
    log0,        \* history: content of metrics.json at the start
    lastWin      \* history: event of the latest successful rename

storeVars == <<dirExists, fs, calls, alive, budget, raced, lastRead, log0, lastWin>>

\* the writer's and the reader's own part of it
queueVars == <<dirExists, calls, alive, budget, raced, lastRead, log0, lastWin>>

VARIABLES
    now,                      \* Date.now() in the extension process, in ms
    freshIds,                 \* the session ids randomUUID() has yet to return
    currentSessionId,         \* extension.ts:11, NoSession when undefined
    processedRiskTimestamps,  \* extension.ts:15, the dedup set
    geminiLastCallMs,         \* extension.ts:19
    geminiQueue,              \* extension.ts:20, the events of the queued closures
    geminiDraining,           \* extension.ts:21
    drainTimer,               \* the pacing wait of drainGeminiQueue: fn held, wake-up time
    handlers,                 \* bag of the handleMetricsChange runs at their await
    inflight,                 \* processRiskEvent runs awaiting the external call
    notified,                 \* how many watcher notifications were delivered
    staleHits,                \* history: timestamps the dedup set kept from a second enqueue
    queuedBehind,             \* history: timestamps enqueued while a drain loop was running
    enqueued,                 \* history: the events passed to enqueueGeminiCall
    fired,                    \* history: the processRiskEvent calls made
    sidecar,                  \* the file .cline-shield/diff-context.json
    called,                   \* history: the calls made to the external service
    returned,                 \* history: what the external service gave back last
    lostJobs,                 \* history: timestamps whose job a restart has ended
    riskInput,                \* the RiskInput handed to computeRiskScore
    riskResult,               \* what computeRiskScore returned for it
    snapshots,                \* path -> the snapshot file the analyzer finds there
    analyzeArgs,              \* the beforePath and afterPath handed to the analyzer
    analysis,                 \* what analyzeStructuralChange returned for them
    sanityPc,                 \* where the run of clineshield-sanity.js under way stands
    sanityIsTs,               \* the file the sanity check is run on is a .ts/.tsx file
    toolsRun,                 \* the tools this run has called so far, and how each ended
    retryState,               \* what retry-state.json holds for the file
    retryEntry,               \* the entry this run loaded at its start
    sanityOutcome,            \* the events and the exit code of the last run that ended
    failStreak,               \* history: failed runs since the last passing run
    sanityRuns                \* how many runs were started

\* the rules engine's call
scoreVars == <<riskInput, riskResult>>

\* the analyzer's call
analyzeVars == <<snapshots, analyzeArgs, analysis>>

\* the sanity check's runs
sanityVars == <<sanityPc, sanityIsTs, toolsRun, retryState, retryEntry, sanityOutcome,
                failStreak, sanityRuns>>

\* the tools the hooks run for an edit
hookVars == <<scoreVars, analyzeVars, sanityVars>>

\* what neither the watcher nor the dispatcher reads or writes
jobVars == <<sidecar, called, returned, lostJobs, hookVars>>

watchVars ==
    <<now, freshIds, currentSessionId, processedRiskTimestamps, geminiLastCallMs,
      geminiQueue, geminiDraining, drainTimer, handlers, inflight, notified,
      staleHits, queuedBehind, enqueued, fired, jobVars>>

----------------------------------------------------------------------------
(* Bounds *)

MaxCalls == 2       \* appendEvent calls made when one process appends
MaxMultiCalls == 3  \* appendEvent calls made in all when two processes append
MaxInit == 1        \* events in the log at the start
MaxNotify == 2      \* watcher notifications delivered to the extension
MaxWatchLog == 3    \* events in the log the extension watches
MaxTicks == 2       \* steps of the extension's clock
MaxJobs == 3        \* qualifying events handed to the dispatcher
MaxRuns == 1        \* runs of processRiskEvent followed by themselves
MaxDirs == 2        \* directories in a file path handed to the rules engine
MaxDecls == 2       \* declarations in a snapshot handed to the analyzer
MaxNames == 40      \* functions in a snapshot when only their number matters
MaxSanityRuns == 4  \* runs of the sanity check on the file

----------------------------------------------------------------------------
(* Events (types/metrics.ts) *)

\* the sequences over S of length up to n
RECURSIVE SeqsUpTo(_, _)
SeqsUpTo(S, n) ==
    IF n = 0 THEN {<<>>}
    ELSE SeqsUpTo(S, n - 1) \cup
         {Append(s, x) : s \in {t \in SeqsUpTo(S, n - 1) : Len(t) = n - 1}, x \in S}

Sessions == {"s1", "s2"}

\* the files the edits are made to: the edit of timestamp ts is made to one of two
FileOf(ts) == IF ts % 2 = 1 THEN "a.ts" ELSE "b.ts"

\* BaseEvent with the data of a risk-assessed event (file, level) and of an
\* llm-analysis event (file, relatedRiskEventTimestamp, reasoning, model,
\* duration)
Ev(ts, sid, ty, lv) ==
    [timestamp |-> ts, sessionId |-> sid, type |-> ty, level |-> lv, related |-> 0,
     file |-> IF ty = "risk-assessed" THEN FileOf(ts) ELSE "none",
     reasoning |-> "none", model |-> "none", duration |-> 0]

\* mutant: the event is linked to the time of its own writing
LlmEvSelfLinked(ts, sid, file, rel, reasoning, duration) ==
    [timestamp |-> ts, sessionId |-> sid, type |-> "llm-analysis", level |-> "none",
     related |-> ts, file |-> file, reasoning |-> reasoning,
     model |-> "gemini-2.5-flash", duration |-> duration]

LlmEv(ts, sid, file, rel, reasoning, duration) ==
    [timestamp |-> ts, sessionId |-> sid, type |-> "llm-analysis", level |-> "none",
     related |-> rel, file |-> file, reasoning |-> reasoning,
     model |-> "gemini-2.5-flash", duration |-> duration]

NoEv == Ev(0, "none", "none", "none")

\* The events found in a log: two sessions, two types, two of them with
\* one timestamp.
EventPool ==
    { Ev(1, "s1", "risk-assessed", "high"),
      Ev(2, "s1", "edit-allowed", "none"),
      Ev(2, "s2", "risk-assessed", "low") }

\* The event of the i-th appendEvent call of process p.  The writer never
\* looks into an event, so one event per call, all different, is enough:
\* the hooks write the risk-assessed events, the extension the others.
CallPool(p, i) ==
    IF p = "hook" THEN {Ev(i, "s1", "risk-assessed", "high")}
    ELSE {LlmEv(i, "s1", FileOf(i), i, "why-1", 0)}

\* The k-th event of a log written before the processes started.
OldEvent(k) == Ev(0 - k, "s0", "edit-allowed", "none")

OldLogs == {[k \in 1..n |-> OldEvent(k)] : n \in 0..MaxInit}

EventTypes == {"risk-assessed", "edit-allowed", "llm-analysis"}

----------------------------------------------------------------------------
(* File content: a sequence of tokens.  JSON.stringify writes an array as  *)
(* "[" e "," e ... "]"; JSON.parse accepts exactly the complete texts.     *)

Tok(t)   == [t |-> t, ev |-> NoEv]
EvTok(e) == [t |-> "ev", ev |-> e]

LB    == Tok("[")
RB    == Tok("]")
COMMA == Tok(",")
LC    == Tok("{")
RC    == Tok("}")

RECURSIVE Join(_)
Join(events) ==
    IF Len(events) = 0 THEN <<>>
    ELSE IF Len(events) = 1 THEN <<EvTok(events[1])>>
    ELSE <<EvTok(events[1]), COMMA>> \o Join(Tail(events))

\* JSON.stringify(events, null, 2)
Stringify(events) == <<LB>> \o Join(events) \o <<RB>>

\* The text between the brackets is empty or e ("," e)*
IsElementList(inner) ==
    \/ Len(inner) = 0
    \/ /\ Len(inner) % 2 = 1
       /\ \A k \in 1..Len(inner) :
             IF k % 2 = 1 THEN inner[k].t = "ev" ELSE inner[k] = COMMA

\* JSON.parse(content): ok = FALSE when it throws
JsonParse(data) ==
    IF /\ Len(data) >= 2
       /\ data[1] = LB
       /\ data[Len(data)] = RB
       /\ IsElementList(SubSeq(data, 2, Len(data) - 1))
    THEN [ok |-> TRUE, isArray |-> TRUE,
          events |-> [k \in 1..(Len(data) - 1) \div 2 |-> data[2 * k].ev]]
    ELSE IF data = <<LC, RC>> \/ (Len(data) = 1 /\ data[1].t = "ev")
    THEN [ok |-> TRUE, isArray |-> FALSE, events |-> <<>>]
    ELSE [ok |-> FALSE, isArray |-> FALSE, events |-> <<>>]

Absent     == [exists |-> FALSE, data |-> <<>>]
File(data) == [exists |-> TRUE, data |-> data]

\* the file holds one complete serialized array
IsCompleteArray(f) == f.exists /\ JsonParse(f.data).ok /\ JsonParse(f.data).isArray

----------------------------------------------------------------------------
(* Paths *)

Procs == {"ext", "hook"}

\* getMetricsPath(workspaceRoot)
Canon == <<"metrics.json", 0>>

\* mutant: the array is written straight into metrics.json
TempPathInPlace(p, i) == Canon

\* `${metricsPath}.${Date.now()}.${randomBytes(4).toString('hex')}.tmp`:
\* one name per doAppend run
TempPath(p, i) == <<p, i>>

MaxPaths == IF MaxCalls > MaxMultiCalls THEN MaxCalls ELSE MaxMultiCalls

Paths == {Canon} \cup {<<p, i>> : p \in Procs, i \in 1..MaxPaths}

----------------------------------------------------------------------------
(* writer.ts *)

\* no reader call has been made in this state
NoRead ==
    [kind |-> "none", arg |-> "none", readErr |-> FALSE, threw |-> FALSE,
     result |-> <<>>]

\* a doAppend run chained on the queue, not started yet
NewCall(e) ==
    [ev |-> e, pc |-> "queued", events |-> <<>>, fault |-> "none",
     readErr |-> FALSE, promise |-> "pending"]

\* mutant: doAppend is started at once, not chained behind the previous promise
PrevSettledUnchained(p, i) == TRUE

\* mutant: no .catch on the chain, so a run that failed holds up what follows
PrevSettledClean(p, i) ==
    IF i = 1 THEN TRUE
    ELSE calls[p][i - 1].promise # "pending" /\ calls[p][i - 1].fault = "none"

\* prev.then(() => doAppend(...)): the previous promise of the chain has settled
PrevSettled(p, i) == IF i = 1 THEN TRUE ELSE calls[p][i - 1].promise # "pending"

\* appendEvent: chain a new doAppend behind the queue's last promise
AppendEvent(p, e) ==
    /\ alive[p]
    /\ budget > 0
    /\ p = "hook" => calls[p] = <<>>     \* a hook run appends once and exits
    /\ budget' = budget - 1
    /\ raced' = (raced \/ \E i \in 1..Len(calls[p]) : calls[p][i].promise = "pending")
    /\ calls' = [calls EXCEPT ![p] = Append(@, NewCall(e))]
    /\ UNCHANGED <<dirExists, fs, alive, log0, lastWin>>
    /\ lastRead' = NoRead
    /\ UNCHANGED watchVars

SetCall(p, i, c) == calls' = [calls EXCEPT ![p][i] = c]

\* mutant: a failure is rethrown and the returned promise rejects
SettleRethrow(c, fault) ==
    [c EXCEPT !.pc = "done", !.fault = fault, !.events = <<>>,
              !.promise = IF fault = "none" THEN "fulfilled" ELSE "rejected"]

\* doAppend's catch (console.error, no rethrow) and appendEvent's .catch(() => {})
Settle(c, fault) ==
    [c EXCEPT !.pc = "done", !.fault = fault, !.promise = "fulfilled", !.events = <<>>]

\* the .then callback starts doAppend: await fs.access(metricsDir)
Access(p, i) ==
    /\ alive[p]
    /\ calls[p][i].pc = "queued"
    /\ PrevSettled(p, i)
    /\ SetCall(p, i, [calls[p][i] EXCEPT !.pc = IF dirExists THEN "read" ELSE "mkdir"])
    /\ UNCHANGED <<dirExists, fs, alive, budget, raced, log0, lastWin>>
    /\ lastRead' = NoRead
    /\ UNCHANGED watchVars

\* await fs.mkdir(metricsDir, { recursive: true })
Mkdir(p, i) ==
    /\ alive[p]
    /\ calls[p][i].pc = "mkdir"
    /\ \E fail \in BOOLEAN :
          IF fail
          THEN /\ SetCall(p, i, Settle(calls[p][i], "mkdir"))
               /\ UNCHANGED dirExists
          ELSE /\ SetCall(p, i, [calls[p][i] EXCEPT !.pc = "read"])
               /\ dirExists' = TRUE
    /\ UNCHANGED <<fs, alive, budget, raced, log0, lastWin>>
    /\ lastRead' = NoRead
    /\ UNCHANGED watchVars

\* mutant: the existing log is never loaded, every append starts fresh
LoadEventsFresh(f, fail) == [err |-> FALSE, events |-> <<>>]

\* mutant: a parse error or a non-array value is thrown instead of reset
LoadEventsThrowing(f, fail) ==
    IF fail \/ ~f.exists THEN [err |-> FALSE, events |-> <<>>]
    ELSE IF ~JsonParse(f.data).ok \/ ~JsonParse(f.data).isArray
    THEN [err |-> TRUE, events |-> <<>>]
    ELSE [err |-> FALSE, events |-> JsonParse(f.data).events]

\* lines 75-94: the events loaded from metrics.json.  A failed read, a parse
\* error and a non-array value all reset to []; err would be an exception
\* escaping to doAppend's outer catch, which this code never raises.
LoadEvents(f, fail) ==
    IF fail \/ ~f.exists THEN [err |-> FALSE, events |-> <<>>]
    ELSE IF ~JsonParse(f.data).ok THEN [err |-> FALSE, events |-> <<>>]
    ELSE IF ~JsonParse(f.data).isArray THEN [err |-> FALSE, events |-> <<>>]
    ELSE [err |-> FALSE, events |-> JsonParse(f.data).events]

\* mutant: events.unshift(event)
PushEventFront(events, e) == <<e>> \o events

\* events.push(event)
PushEvent(events, e) == Append(events, e)

\* await fs.readFile(metricsPath), JSON.parse, events.push(event)
ReadFile(p, i) ==
    /\ alive[p]
    /\ calls[p][i].pc = "read"
    /\ \E fail \in BOOLEAN :
          /\ fail => fs[Canon].exists        \* a missing file is the other branch
          /\ IF LoadEvents(fs[Canon], fail).err
             THEN SetCall(p, i, Settle(calls[p][i], "load"))
             ELSE SetCall(p, i, [calls[p][i] EXCEPT
                      !.pc = "write",
                      !.readErr = fail,
                      !.events = PushEvent(LoadEvents(fs[Canon], fail).events,
                                           calls[p][i].ev)])
    /\ UNCHANGED <<dirExists, fs, alive, budget, raced, log0, lastWin>>
    /\ lastRead' = NoRead
    /\ UNCHANGED watchVars

Prefix(s, k) == SubSeq(s, 1, k)

\* how much of an n-token text the file holds while writeFile is under way:
\* nothing yet (opened with O_TRUNC) or all but the last piece
PartialLens(n) == {0, n - 1}

\* await fs.writeFile(tempPath, ...): the file is created and filled piecewise
WriteFileBegin(p, i) ==
    /\ alive[p]
    /\ calls[p][i].pc = "write"
    /\ \/ /\ SetCall(p, i, Settle(calls[p][i], "write"))      \* open fails
          /\ UNCHANGED fs
       \/ \E k \in PartialLens(Len(Stringify(calls[p][i].events))) :
             /\ fs' = [fs EXCEPT ![TempPath(p, i)] =
                          File(Prefix(Stringify(calls[p][i].events), k))]
             /\ SetCall(p, i, [calls[p][i] EXCEPT !.pc = "writing"])
    /\ UNCHANGED <<dirExists, alive, budget, raced, log0, lastWin>>
    /\ lastRead' = NoRead
    /\ UNCHANGED watchVars

WriteFileEnd(p, i) ==
    /\ alive[p]
    /\ calls[p][i].pc = "writing"
    /\ \/ /\ SetCall(p, i, Settle(calls[p][i], "write"))      \* write fails
          /\ UNCHANGED fs
       \/ /\ fs' = [fs EXCEPT ![TempPath(p, i)] = File(Stringify(calls[p][i].events))]
          /\ SetCall(p, i, [calls[p][i] EXCEPT !.pc = "rename"])
    /\ UNCHANGED <<dirExists, alive, budget, raced, log0, lastWin>>
    /\ lastRead' = NoRead
    /\ UNCHANGED watchVars

\* rename(2): the target takes the source's content, the source name goes
RenameFs(src, dst) ==
    IF src = dst THEN fs
    ELSE [fs EXCEPT ![dst] = fs[src], ![src] = Absent]

\* await fs.rename(tempPath, metricsPath)
Rename(p, i) ==
    /\ alive[p]
    /\ calls[p][i].pc = "rename"
    /\ \/ /\ SetCall(p, i, [calls[p][i] EXCEPT !.pc = "unlink"])   \* rename fails
          /\ UNCHANGED <<fs, lastWin>>
       \/ /\ fs[TempPath(p, i)].exists
          /\ fs' = RenameFs(TempPath(p, i), Canon)
          /\ lastWin' = calls[p][i].ev
          /\ SetCall(p, i, Settle(calls[p][i], "none"))
    /\ UNCHANGED <<dirExists, alive, budget, raced, log0>>
    /\ lastRead' = NoRead
    /\ UNCHANGED watchVars

\* catch (renameError) { try { await fs.unlink(tempPath) } catch {} throw renameError }
Unlink(p, i) ==
    /\ alive[p]
    /\ calls[p][i].pc = "unlink"
    /\ \/ /\ fs' = [fs EXCEPT ![TempPath(p, i)] = Absent]
          /\ SetCall(p, i, Settle(calls[p][i], "rename"))
       \/ /\ UNCHANGED fs                                          \* unlink fails
          /\ SetCall(p, i, Settle(calls[p][i], "rename+unlink"))
    /\ UNCHANGED <<dirExists, alive, budget, raced, log0, lastWin>>
    /\ lastRead' = NoRead
    /\ UNCHANGED watchVars

\* the process dies between two I/O steps
Crash(p) ==
    /\ alive[p]
    /\ \E i \in 1..Len(calls[p]) : calls[p][i].pc # "done"
    /\ alive' = [alive EXCEPT ![p] = FALSE]
    /\ UNCHANGED <<dirExists, fs, calls, budget, raced, log0, lastWin>>
    /\ lastRead' = NoRead
    /\ UNCHANGED watchVars

----------------------------------------------------------------------------
(* reader.ts *)

\* mutant: no catch and no Array.isArray check
ReadEventsUnguarded(f, fail) ==
    IF fail \/ ~f.exists THEN [threw |-> TRUE, events |-> <<>>]
    ELSE IF ~JsonParse(f.data).ok THEN [threw |-> TRUE, events |-> <<>>]
    ELSE [threw |-> FALSE, events |-> JsonParse(f.data).events]

\* readEvents: the parsed array, or [] from the not-array return and the catch
ReadEvents(f, fail) ==
    IF fail \/ ~f.exists THEN [threw |-> FALSE, events |-> <<>>]
    ELSE IF ~JsonParse(f.data).ok THEN [threw |-> FALSE, events |-> <<>>]
    ELSE IF ~JsonParse(f.data).isArray THEN [threw |-> FALSE, events |-> <<>>]
    ELSE [threw |-> FALSE, events |-> JsonParse(f.data).events]

\* mutant: the filter keeps the events of the other sessions
FilterBySessionNot(events, sid) == SelectSeq(events, LAMBDA e : e.sessionId # sid)

\* events.filter(event => event.sessionId === sessionId)
\* mutant: the events of every session are returned
FilterBySessionAll(events, sid) == events

FilterBySession(events, sid) == SelectSeq(events, LAMBDA e : e.sessionId = sid)

\* events.filter(event => event.type === type)
FilterByType(events, ty) == SelectSeq(events, LAMBDA e : e.type = ty)

ReadRecord(kind, arg, fail, r) ==
    [kind |-> kind, arg |-> arg, readErr |-> fail, threw |-> r.threw,
     result |-> r.events]

DoReadEvents ==
    /\ \E fail \in BOOLEAN :
          /\ fail => fs[Canon].exists
          /\ lastRead' = ReadRecord("all", "none", fail, ReadEvents(fs[Canon], fail))
    /\ UNCHANGED <<dirExists, fs, calls, alive, budget, raced, log0, lastWin>>
    /\ UNCHANGED watchVars

DoReadEventsBySession ==
    /\ \E fail \in BOOLEAN, sid \in Sessions :
          /\ fail => fs[Canon].exists
          /\ lastRead' = ReadRecord("session", sid, fail,
                 [threw  |-> ReadEvents(fs[Canon], fail).threw,
                  events |-> FilterBySession(ReadEvents(fs[Canon], fail).events, sid)])
    /\ UNCHANGED <<dirExists, fs, calls, alive, budget, raced, log0, lastWin>>
    /\ UNCHANGED watchVars

DoReadEventsByType ==
    /\ \E fail \in BOOLEAN, ty \in EventTypes :
          /\ fail => fs[Canon].exists
          /\ lastRead' = ReadRecord("type", ty, fail,
                 [threw  |-> ReadEvents(fs[Canon], fail).threw,
                  events |-> FilterByType(ReadEvents(fs[Canon], fail).events, ty)])
    /\ UNCHANGED <<dirExists, fs, calls, alive, budget, raced, log0, lastWin>>
    /\ UNCHANGED watchVars

----------------------------------------------------------------------------
(* rulesEngine.ts *)

\* A number of the RiskInput: a value, or NaN, of which every comparison is false.
Num(v) == [nan |-> FALSE, v |-> v]
NaN == [nan |-> TRUE, v |-> 0]
GtOrEq(x, c) == ~x.nan /\ x.v >= c

\* x > c
Gt(x, c) == ~x.nan /\ x.v > c

\* A file path: its directories, the parts of its last segment between the
\* dots, and whether it is written with backslashes.
Dirs == {"src", "auth", "config", "lib"}
NamePool ==
    {<<"index", "ts">>, <<"index", "test", "ts">>, <<"app", "spec", "jsx">>,
     <<"test", "ts">>, <<"", "env">>}
FilePaths ==
    {[dirs |-> ds, name |-> nm, backslash |-> b] :
        ds \in SeqsUpTo(Dirs, MaxDirs), nm \in NamePool, b \in BOOLEAN}

PROTECTED_PATH_PREFIXES ==
    {<<"src", "config">>, <<"src", "auth">>, <<"src", "middleware">>,
     <<"auth">>, <<"config">>}
PROTECTED_FILE_EXACT ==
    {<<"", "env">>, <<"", "env", "local">>, <<"", "env", "production">>,
     <<"", "env", "development">>}

\* filePath.replace(/\\/g, '/').split('/'): the segments, whichever separator
Normalized(filePath) == filePath.dirs \o <<filePath.name>>

\* normalized.startsWith(prefix), the prefix ending with a slash
StartsWith(segments, prefix) ==
    /\ Len(segments) > Len(prefix)
    /\ SubSeq(segments, 1, Len(prefix)) = prefix

isProtectedPath(filePath) ==
    LET normalized == Normalized(filePath)
        basename == normalized[Len(normalized)]
    IN  \/ basename \in PROTECTED_FILE_EXACT
        \/ \E prefix \in PROTECTED_PATH_PREFIXES : StartsWith(normalized, prefix)

\* /\.(test|spec)\.(ts|tsx|js|jsx)$/
isTestFile(filePath) ==
    LET parts == filePath.name
        n == Len(parts)
    IN  /\ n >= 3
        /\ parts[n - 1] \in {"test", "spec"}
        /\ parts[n] \in {"ts", "tsx", "js", "jsx"}

levelFromScoreStrict(score) ==
    IF score < 30 THEN "low"
    ELSE IF score < 60 THEN "medium"
    ELSE "high"

levelFromScore(score) ==
    IF score <= 30 THEN "low"
    ELSE IF score <= 60 THEN "medium"
    ELSE "high"

Reason(rule, points) == [rule |-> rule, points |-> points]

\* a rule that fires: what it adds to `score` and the reason it pushes
Fires(rule, add, points) == <<[add |-> add, reason |-> Reason(rule, points)]>>

\* Rule 1, lines 80-87
ProtectedRule(input) ==
    IF isProtectedPath(input.filePath)
    THEN Fires("protected_path", 30, 30) ELSE <<>>

StructuralTierBoth(input) ==
       (IF Gt(input.structuralChangePercent, 75)
        THEN Fires("structural_change_high", 40, 40) ELSE <<>>)
    \o (IF Gt(input.structuralChangePercent, 50)
        THEN Fires("structural_change_medium", 25, 25) ELSE <<>>)

\* Rules 2/3, lines 91-105
StructuralTier(input) ==
    IF Gt(input.structuralChangePercent, 75)
    THEN Fires("structural_change_high", 40, 40)
    ELSE IF Gt(input.structuralChangePercent, 50)
    THEN Fires("structural_change_medium", 25, 25) ELSE <<>>

\* the high tier worth less than the low one
DeletionTierDips(input) ==
    IF Gt(input.deletedFunctions, 3)
    THEN Fires("deleted_functions_high", 15, 15)
    ELSE IF Gt(input.deletedFunctions, 0)
    THEN Fires("deleted_functions_low", 20, 20) ELSE <<>>

\* Rules 4/5, lines 109-123
DeletionTier(input) ==
    IF Gt(input.deletedFunctions, 3)
    THEN Fires("deleted_functions_high", 35, 35)
    ELSE IF Gt(input.deletedFunctions, 0)
    THEN Fires("deleted_functions_low", 20, 20) ELSE <<>>

\* Rule 6, lines 126-133
SanityRule(input) ==
    IF ~input.sanityPassed
    THEN Fires("sanity_failed", 20, 20) ELSE <<>>

\* Rule 7, lines 136-143
LargeDiffRule(input) ==
    IF Gt(input.diffLineCount, 200)
    THEN Fires("large_diff", 15, 15) ELSE <<>>

TestFileRuleAdds(input) ==
    IF isTestFile(input.filePath)
    THEN Fires("test_file", 10, -10) ELSE <<>>

\* Rule 8, lines 146-153: score -= 10
TestFileRule(input) ==
    IF isTestFile(input.filePath)
    THEN Fires("test_file", -10, -10) ELSE <<>>

\* lines 76-153: the rules that fire, in the order of the code
RulesFired(input) ==
    ProtectedRule(input) \o StructuralTier(input) \o DeletionTier(input)
        \o SanityRule(input) \o LargeDiffRule(input) \o TestFileRule(input)

\* the array `reasons` at line 154
ReasonsOf(input) ==
    [i \in 1..Len(RulesFired(input)) |-> RulesFired(input)[i].reason]

RECURSIVE SumAdded(_)
SumAdded(rules) ==
    IF rules = <<>> THEN 0
    ELSE Head(rules).add + SumAdded(Tail(rules))

\* the value of `score` at line 154
RawScore(input) == SumAdded(RulesFired(input))

MathMin(a, b) == IF a <= b THEN a ELSE b
MathMax(a, b) == IF a >= b THEN a ELSE b

ClampNoFloor(score) == MathMin(100, score)

\* line 155
Clamp(score) == MathMin(100, MathMax(0, score))

computeRiskScore(input) ==
    LET finalScore == Clamp(RawScore(input))
    IN  [score |-> finalScore,
         level |-> levelFromScore(finalScore),
         reasons |-> ReasonsOf(input)]

\* the inputs followed: the values on either side of every threshold
PercentPool == {Num(0), Num(50), Num(51), Num(75), Num(76), NaN}
DeletedPool == {Num(0), Num(1), Num(3), Num(4)}
DiffLinePool == {Num(200), Num(201)}
RiskInputs ==
    {[filePath |-> f, structuralChangePercent |-> p, deletedFunctions |-> d,
      sanityPassed |-> s, diffLineCount |-> n] :
        f \in FilePaths, p \in PercentPool, d \in DeletedPool,
        s \in BOOLEAN, n \in DiffLinePool}

NoInput == [filePath |-> [dirs |-> <<>>, name |-> <<"">>, backslash |-> FALSE],
            structuralChangePercent |-> Num(0), deletedFunctions |-> Num(0),
            sanityPassed |-> TRUE, diffLineCount |-> Num(0)]
NoScore == [score |-> -1, level |-> "none", reasons |-> <<>>]

\* no call of the rules engine is followed
ScoreIdle ==
    /\ riskInput = NoInput
    /\ riskResult = NoScore

----------------------------------------------------------------------------
(* clineshield-analyze.js *)

\* A symbol name: an identifier (numbered where many are needed), or a class
\* method behind the name of its class.
Name(cls, base, n) == [cls |-> cls, base |-> base, n |-> n]

QualifiedBare(cls, d) == Name("", d.base, d.n)

\* `${className}.${methodName}`, lines 58-61
Qualified(cls, d) == Name(IF cls = "" THEN "<anonymous>" ELSE cls, d.base, d.n)

\* What ts-morph finds in a source file: top-level function declarations,
\* methods of classes, top-level variable declarations.  `base` is "" where
\* getName() gives nothing, `init` is the text of a variable's initializer
\* ("" where there is none), `exported` tells whether the function, the class
\* or the variable is exported.
Decl(kind, cls, base, n, init, exported) ==
    [kind |-> kind, cls |-> cls, base |-> base, n |-> n, init |-> init,
     exported |-> exported]
FunctionDecl(base, n, exported) == Decl("function", "", base, n, "", exported)
MethodDecl(cls, base, exported) == Decl("method", cls, base, 0, "", exported)
VariableDecl(base, init, exported) == Decl("variable", "", base, 0, init, exported)

\* text.includes('=>'), lines 71 and 103
IncludesArrow(text) == text \in {"() => {}", "'a => b'"}
\* text.startsWith('function')
StartsWithFunction(text) == text \in {"function () {}"}

\* lines 46-78 (and 81-110): the names of the functions of a source file
FunctionNames(content) ==
    {Name("", d.base, d.n) :
        d \in {d \in content : d.kind = "function" /\ d.base # ""}}
    \cup {Qualified(d.cls, d) : d \in {d \in content : d.kind = "method"}}
    \cup {Name("", d.base, d.n) :
            d \in {d \in content :
                      /\ d.kind = "variable"
                      /\ d.init # ""
                      /\ IncludesArrow(d.init) \/ StartsWithFunction(d.init)
                      /\ d.base # ""}}

\* the key under which getExportedDeclarations() lists an exported declaration
ExportName(d) ==
    IF d.kind = "method"
    THEN Name("", IF d.cls = "" THEN "default" ELSE d.cls, 0)
    ELSE Name("", IF d.base = "" THEN "default" ELSE d.base, d.n)

\* lines 136-145
ExportNames(content) == {ExportName(d) : d \in {d \in content : d.exported}}

CountPresent(S, T) == Cardinality({x \in S : x \in T})

\* the forEach loops of lines 113-126 and 148-153: how many of S are not in T
CountAbsent(S, T) == Cardinality({x \in S : ~(x \in T)})

\* The numbers of line 132 are IEEE 754 doubles.  A non-negative double is
\* kept as its significand, a sequence of limbs of LimbBits binary digits from
\* the lowest to the highest, and the power of two it is multiplied with.
Precision == 53
LimbBits == 18
Zero == [limbs |-> <<>>, exp |-> 0]

RECURSIVE Pow2(_)
Pow2(e) == IF e = 0 THEN 1 ELSE 2 * Pow2(e - 1)

LimbBase == Pow2(LimbBits)

RECURSIVE BitLen(_)
BitLen(n) == IF n = 0 THEN 0 ELSE 1 + BitLen(n \div 2)

\* the number of binary digits of a significand
Bits(limbs) ==
    IF limbs = <<>> THEN 0
    ELSE LimbBits * (Len(limbs) - 1) + BitLen(limbs[Len(limbs)])

RECURSIVE Trim(_)
Trim(limbs) ==
    IF limbs # <<>> /\ limbs[Len(limbs)] = 0
    THEN Trim(SubSeq(limbs, 1, Len(limbs) - 1))
    ELSE limbs

\* the significand without its d lowest binary digits, 0 <= d < LimbBits
ShiftRight(limbs, d) ==
    Trim([i \in 1..Len(limbs) |->
            limbs[i] \div Pow2(d)
            + (IF i < Len(limbs)
               THEN (limbs[i + 1] % Pow2(d)) * Pow2(LimbBits - d) ELSE 0)])

RECURSIVE Increment(_)
Increment(limbs) ==
    IF limbs = <<>> THEN <<1>>
    ELSE IF Head(limbs) + 1 < LimbBase THEN <<Head(limbs) + 1>> \o Tail(limbs)
    ELSE <<0>> \o Increment(Tail(limbs))

\* round to nearest, ties to even, keeping Precision binary digits (of a
\* significand at most LimbBits digits longer)
RECURSIVE RoundToPrecision(_)
RoundToPrecision(f) ==
    IF Bits(f.limbs) <= Precision THEN f
    ELSE LET drop == Bits(f.limbs) - Precision
             low == f.limbs[1] % Pow2(drop)
             half == Pow2(drop - 1)
             kept == ShiftRight(f.limbs, drop)
             up == low > half \/ (low = half /\ kept[1] % 2 = 1)
         IN  RoundToPrecision([limbs |-> IF up THEN Increment(kept) ELSE kept,
                               exp |-> f.exp + drop])

\* the least e with x * 2^e >= y
RECURSIVE ShiftTo(_, _)
ShiftTo(x, y) == IF x >= y THEN 0 ELSE 1 + ShiftTo(2 * x, y)

\* the double x / y, for integers 0 <= x <= y, 0 < y < 2^13: the quotient
\* is worked out limb by limb, the highest one first
FDiv(x, y) ==
    IF x = 0 THEN Zero
    ELSE LET e == ShiftTo(x, y)
             topBits == Precision - 2 * LimbBits
             s2 == (x * Pow2(e) - y) * Pow2(topBits - 1)
             s1 == (s2 % y) * LimbBase
             s0 == (s1 % y) * LimbBase
             rem == s0 % y
             exact == <<s0 \div y, s1 \div y, Pow2(topBits - 1) + s2 \div y>>
             up == 2 * rem > y \/ (2 * rem = y /\ exact[1] % 2 = 1)
         IN  RoundToPrecision([limbs |-> IF up THEN Increment(exact) ELSE exact,
                               exp |-> 0 - e - (Precision - 1)])

RECURSIVE MulLimbs(_, _, _)
MulLimbs(limbs, k, carry) ==
    IF limbs = <<>> THEN (IF carry = 0 THEN <<>> ELSE <<carry>>)
    ELSE LET v == Head(limbs) * k + carry
         IN  <<v % LimbBase>> \o MulLimbs(Tail(limbs), k, v \div LimbBase)

\* the double f * k, for an integer 0 < k < 2^12
FMul(f, k) == RoundToPrecision([limbs |-> MulLimbs(f.limbs, k, 0), exp |-> f.exp])

RECURSIVE ToInt(_)
ToInt(limbs) == IF limbs = <<>> THEN 0 ELSE Head(limbs) + LimbBase * ToInt(Tail(limbs))

\* Math.round of a double below 2^30: the nearest integer, a tie going up
MathRound(f) ==
    LET frac == 0 - f.exp
        whole == (frac - 1) \div LimbBits
        doubled == IF whole >= Len(f.limbs) THEN <<>>
                   ELSE ShiftRight(SubSeq(f.limbs, whole + 1, Len(f.limbs)),
                                   (frac - 1) % LimbBits)
    IN  IF frac <= 0 THEN ToInt(f.limbs) * Pow2(f.exp)
        ELSE (ToInt(doubled) + 1) \div 2

\* lines 130-133
StructuralChangePercent(changed, total) ==
    IF total > 0 THEN MathRound(FMul(FDiv(changed, total), 100)) ELSE 0

\* The file at a path: none, one that readFileSync fails on, or a snapshot.
NoFile == [exists |-> FALSE, readable |-> FALSE, content |-> {}]
Unreadable == [exists |-> TRUE, readable |-> FALSE, content |-> {}]
Snapshot(content) == [exists |-> TRUE, readable |-> TRUE, content |-> content]

NoError == [kind |-> "none", path |-> "none"]
FileNotFound(path) == [kind |-> "File not found", path |-> path]
ParseError == [kind |-> "Parse error", path |-> "none"]
OtherError == [kind |-> "other", path |-> "none"]

\* a result returned
AnalysisOf(error, percent, deletedFunctions, deletedExports) ==
    [threw |-> FALSE, error |-> error, structuralChangePercent |-> percent,
     deletedFunctions |-> deletedFunctions, deletedExports |-> deletedExports]

\* an exception on its way out of a block
Thrown == [threw |-> TRUE, error |-> NoError, structuralChangePercent |-> 0,
           deletedFunctions |-> 0, deletedExports |-> 0]

MissingPathAfterFirst(files, beforePath, afterPath) ==
    IF ~files[afterPath].exists THEN afterPath
    ELSE IF ~files[beforePath].exists THEN beforePath
    ELSE "none"

\* lines 14 and 23: the path existsSync fails on first
MissingPath(files, beforePath, afterPath) ==
    IF ~files[beforePath].exists THEN beforePath
    ELSE IF ~files[afterPath].exists THEN afterPath
    ELSE "none"

\* lines 42-159, the block of the inner try
CompareSnapshots(files, beforePath, afterPath) ==
    IF ~files[beforePath].readable \/ ~files[afterPath].readable
    THEN Thrown
    ELSE LET beforeFunctions == FunctionNames(files[beforePath].content)
             afterFunctions == FunctionNames(files[afterPath].content)
             deletedFunctions == CountAbsent(beforeFunctions, afterFunctions)
             addedFunctions == CountAbsent(afterFunctions, beforeFunctions)
             totalFunctions == Cardinality(beforeFunctions) + Cardinality(afterFunctions)
             beforeExports == ExportNames(files[beforePath].content)
             afterExports == ExportNames(files[afterPath].content)
         IN  AnalysisOf(NoError,
                        StructuralChangePercent(addedFunctions + deletedFunctions,
                                                totalFunctions),
                        deletedFunctions,
                        CountAbsent(beforeExports, afterExports))

\* lines 161-168
CatchParseError(outcome) ==
    IF outcome.threw THEN AnalysisOf(ParseError, 0, 0, 0) ELSE outcome

\* lines 170-177
CatchError(outcome) ==
    IF outcome.threw THEN AnalysisOf(OtherError, 0, 0, 0) ELSE outcome

analyzeStructuralChange(files, beforePath, afterPath) ==
    LET missing == MissingPath(files, beforePath, afterPath)
    IN  CatchError(IF missing # "none"
                   THEN AnalysisOf(FileNotFound(missing), 0, 0, 0)
                   ELSE CatchParseError(CompareSnapshots(files, beforePath, afterPath)))

\* the declarations the snapshots followed are made of
DeclPool ==
    {FunctionDecl("run", 0, TRUE), FunctionDecl("", 0, TRUE),
     MethodDecl("Task", "run", TRUE), MethodDecl("", "run", FALSE),
     VariableDecl("handler", "() => {}", TRUE), VariableDecl("handler", "1", TRUE),
     VariableDecl("label", "'a => b'", FALSE), VariableDecl("limit", "1", TRUE)}
Contents == {c \in SUBSET DeclPool : Cardinality(c) <= MaxDecls}
SnapPaths == {"before.ts", "after.ts"}
FileStates == {NoFile, Unreadable} \cup {Snapshot(c) : c \in Contents}

\* the snapshot of the functions fn(lo) .. fn(hi)
FnBlock(lo, hi) == Snapshot({FunctionDecl("fn", i, FALSE) : i \in lo..hi})

NoArgs == [before |-> "none", after |-> "none"]
NoAnalysis == AnalysisOf(NoError, -1, -1, -1)

\* no call of the analyzer is followed
AnalyzeIdle ==
    /\ snapshots = [p \in SnapPaths |-> NoFile]
    /\ analyzeArgs = NoArgs
    /\ analysis = NoAnalysis

----------------------------------------------------------------------------
(* clineshield-sanity.js *)

DEFAULT_MAX_RETRIES == 3

\* What retry-state.json holds for the file: nothing (no file, or no key for
\* it), an entry, or text that is no JSON object.
NoEntry == [kind |-> "absent", retries |-> 0, maxRetries |-> 0]
Garbage == [kind |-> "garbage", retries |-> 0, maxRetries |-> 0]
Entry(retries, maxRetries) ==
    [kind |-> "entry", retries |-> retries, maxRetries |-> maxRetries]

\* lines 60-74
loadRetryEntry(state) ==
    IF state.kind = "entry"
    THEN [retries |-> state.retries, maxRetries |-> state.maxRetries]
    ELSE [retries |-> 0, maxRetries |-> DEFAULT_MAX_RETRIES]

\* retryEntry.maxRetries || DEFAULT_MAX_RETRIES
MaxRetriesOf(entry) ==
    IF entry.maxRetries # 0 THEN entry.maxRetries ELSE DEFAULT_MAX_RETRIES

\* lines 76-96: what the file holds for the key afterwards
saveRetryEntry(state, retries, maxRetries, lastError) ==
    IF retries = 0 /\ lastError = <<>> THEN NoEntry
    ELSE Entry(retries, maxRetries)

\* the tools in the order runSanityChecks calls them; tsc only for .ts/.tsx
ToolOrder(isTs) ==
    IF isTs THEN <<"eslint", "typescript", "prettier">>
    ELSE <<"eslint", "prettier">>

\* lines 130-134 and 190: a tool that was not run counts as passed
ResultsOf(run) ==
    [t \in {"eslint", "typescript", "prettier"} |->
        \A i \in 1..Len(run) : run[i].tool = t => run[i].passed]

\* line 259
AllPassed(results) == \A t \in DOMAIN results : results[t]

\* lines 193-210, the names of the failed tools standing for their texts
generateErrorSummary(results) ==
    (IF ~results["eslint"] THEN <<"eslint">> ELSE <<>>)
    \o (IF ~results["typescript"] THEN <<"typescript">> ELSE <<>>)
    \o (IF ~results["prettier"] THEN <<"prettier">> ELSE <<>>)

NewRetryCountUncapped(entry) == entry.retries + 1

\* lines 298-301
NewRetryCount(entry) ==
    IF entry.retries + 1 <= MaxRetriesOf(entry)
    THEN entry.retries + 1 ELSE MaxRetriesOf(entry)

SanityFailed(tool, retryCount, maxRetries) ==
    [type |-> "sanity-failed", tool |-> tool, retryCount |-> retryCount,
     maxRetries |-> maxRetries]
SanityPassed == [type |-> "sanity-passed", tool |-> "all", retryCount |-> 0,
                 maxRetries |-> 0]

\* lines 303-315
FailedEvents(results, retryCount, maxRetries) ==
    LET failed == generateErrorSummary(results)
    IN  [i \in 1..Len(failed) |-> SanityFailed(failed[i], retryCount, maxRetries)]

\* lines 326-361
ExitCodeOf(retryCount, maxRetries) == IF retryCount < maxRetries THEN 1 ELSE 2

NoOutcome == [events |-> <<>>, exitCode |-> -1, maxRetries |-> 0]

\* the entries something else may have left for the file
SeedPool == {NoEntry, Garbage} \cup {Entry(0, m) : m \in 1..(DEFAULT_MAX_RETRIES - 1)}

\* no run of the sanity check is followed
SanityIdle ==
    /\ sanityPc = "idle"
    /\ sanityIsTs = TRUE
    /\ toolsRun = <<>>
    /\ retryState = NoEntry
    /\ retryEntry = loadRetryEntry(NoEntry)
    /\ sanityOutcome = NoOutcome
    /\ failStreak = 0
    /\ sanityRuns = 0

\* none of the hooks' tools is followed
HooksIdle == ScoreIdle /\ AnalyzeIdle /\ SanityIdle

----------------------------------------------------------------------------
(* extension.ts: the watcher, the dedup set and the dispatcher *)

NoSession == "none"

\* randomUUID(): the ids of the first and of the second activation
AllIds == <<"s1", "s2">>

GEMINI_MIN_INTERVAL_MS == 6000

\* the clock moves in steps of half the pacing interval
TickMs == GEMINI_MIN_INTERVAL_MS \div 2

\* Date.now() is far beyond the interval when the extension starts
StartMs == GEMINI_MIN_INTERVAL_MS

\* The events the hooks append while the extension watches, in the order they
\* are appended: qualifying events, two of them with one timestamp, a low
\* one, one of the second session.
HookLog ==
    << Ev(1, "s1", "risk-assessed", "high"),
       Ev(2, "s1", "risk-assessed", "medium"),
       Ev(2, "s1", "risk-assessed", "high"),
       Ev(3, "s1", "risk-assessed", "low"),
       Ev(3, "s2", "risk-assessed", "high") >>

NoTimer == [set |-> FALSE, fn |-> NoEv, at |-> 0]

\* the module-level state of the dispatcher, and the runs it has started
Disp ==
    [processed |-> processedRiskTimestamps, queue |-> geminiQueue,
     draining |-> geminiDraining, last |-> geminiLastCallMs, timer |-> drainTimer,
     inflight |-> inflight, hits |-> staleHits, behind |-> queuedBehind,
     enqueued |-> enqueued,
     fired |-> fired]

SetDisp(d) ==
    /\ processedRiskTimestamps' = d.processed
    /\ geminiQueue' = d.queue
    /\ geminiDraining' = d.draining
    /\ geminiLastCallMs' = d.last
    /\ drainTimer' = d.timer
    /\ inflight' = d.inflight
    /\ staleHits' = d.hits
    /\ queuedBehind' = d.behind
    /\ enqueued' = d.enqueued
    /\ fired' = d.fired

\* fn(): () => void processRiskEvent(event, currentSessionId!, workspaceRoot),
\* the session id read when the closure runs
CallFn(d, fn, t, sid) ==
    [d EXCEPT !.inflight = Append(@, [ev |-> fn, sid |-> sid, pc |-> "sidecar",
                                      diff |-> "", contents |-> "", startMs |-> 0]),
              !.fired = Append(@, [ev |-> fn, sid |-> sid, at |-> t])]

\* mutant: half the interval is waited for
PacingWaitHalf(t, last) == TickMs - (t - last)

\* line 34: the time the loop has still to wait before its next call
PacingWait(t, last) == GEMINI_MIN_INTERVAL_MS - (t - last)

\* drainGeminiQueue from the top of its while loop, up to the await of the
\* pacing wait or the end of the loop
RECURSIVE DrainLoop(_, _, _)
DrainLoop(d, t, sid) ==
    IF d.queue = <<>> THEN [d EXCEPT !.draining = FALSE]
    ELSE LET fn   == Head(d.queue)
             rest == [d EXCEPT !.queue = Tail(@)]
             wait == PacingWait(t, d.last)
         IN  IF wait > 0
             THEN [rest EXCEPT !.timer = [set |-> TRUE, fn |-> fn, at |-> t + wait]]
             ELSE DrainLoop(CallFn([rest EXCEPT !.last = t], fn, t, sid), t, sid)

drainGeminiQueue(d, t, sid) == DrainLoop([d EXCEPT !.draining = TRUE], t, sid)

\* mutant: a job that arrives while the loop is draining is shed
enqueueGeminiCallShed(d, fn, t, sid) ==
    LET pushed == [d EXCEPT !.queue = Append(@, fn), !.enqueued = Append(@, fn)]
    IN  IF ~d.draining THEN drainGeminiQueue(pushed, t, sid)
        ELSE [d EXCEPT !.enqueued = Append(@, fn), !.behind = @ \cup {fn.timestamp}]

\* mutant: every enqueue starts a drain loop
enqueueGeminiCallAlways(d, fn, t, sid) ==
    drainGeminiQueue([d EXCEPT !.queue = Append(@, fn), !.enqueued = Append(@, fn),
                               !.behind = IF d.draining THEN @ \cup {fn.timestamp} ELSE @],
                     t, sid)

enqueueGeminiCall(d, fn, t, sid) ==
    LET pushed == [d EXCEPT !.queue = Append(@, fn), !.enqueued = Append(@, fn)]
    IN  IF ~pushed.draining THEN drainGeminiQueue(pushed, t, sid)
        ELSE [pushed EXCEPT !.behind = @ \cup {fn.timestamp}]

\* mutant: the enrichment events count as risk events too
IsRiskyOrAnalysis(event) ==
    event.type \in {"risk-assessed", "llm-analysis"} /\ event.level # "low"

\* event.type === 'risk-assessed' && event.data.level !== 'low'
IsRisky(event) == event.type = "risk-assessed" /\ event.level # "low"

\* mutant: the dedup set is not consulted
QualifiesNoDedup(event, processed) == IsRisky(event)

\* lines 161-165: the condition of the enqueue
Qualifies(event, processed) ==
    IsRisky(event) /\ event.timestamp \notin processed

\* lines 160-170: the loop over the events read.  late: the timestamps other
\* handlers have enqueued while this one was at its await.
RECURSIVE ScanEvents(_, _, _, _, _)
ScanEvents(events, late, d, t, sid) ==
    IF events = <<>> THEN d
    ELSE LET event == Head(events)
             step  ==
                 IF Qualifies(event, d.processed)
                 THEN enqueueGeminiCall(
                          [d EXCEPT !.processed = @ \cup {event.timestamp}],
                          event, t, sid)
                 ELSE IF IsRisky(event) /\ event.timestamp \in late
                 THEN [d EXCEPT !.hits = @ \cup {event.timestamp}]
                 ELSE d
         IN  ScanEvents(Tail(events), late, step, t, sid)

\* the log after one more writer has run doAppend to its rename
AppendedLog(f, e) == File(Stringify(PushEvent(LoadEvents(f, FALSE).events, e)))

WatchedEvents == ReadEvents(fs[Canon], FALSE).events

HasRoom == Len(WatchedEvents) < MaxWatchLog

\* how many events the hooks have appended: the risk-assessed events are theirs
HookCount == Len(FilterByType(WatchedEvents, "risk-assessed"))

\* activate: a fresh session id, and the session-start event appended; the
\* append fails (and the failure is swallowed) when the log is full
Activate ==
    /\ currentSessionId = NoSession
    /\ freshIds # <<>>
    /\ currentSessionId' = Head(freshIds)
    /\ freshIds' = Tail(freshIds)
    /\ fs' = IF HasRoom
             THEN [fs EXCEPT ![Canon] =
                      AppendedLog(@, Ev(now, Head(freshIds), "edit-allowed", "none"))]
             ELSE fs
    /\ UNCHANGED <<now, processedRiskTimestamps, geminiLastCallMs, geminiQueue,
                   geminiDraining, drainTimer, handlers, inflight, notified,
                   staleHits, queuedBehind, enqueued, fired>>
    /\ UNCHANGED queueVars
    /\ UNCHANGED jobVars

\* mutant: deactivate empties the dedup set
DeactivateClears ==
    /\ currentSessionId # NoSession
    /\ currentSessionId' = NoSession
    /\ processedRiskTimestamps' = {}
    /\ UNCHANGED <<fs, now, freshIds, geminiLastCallMs,
                   geminiQueue, geminiDraining, drainTimer, handlers, inflight,
                   notified, staleHits, queuedBehind, enqueued, fired>>
    /\ UNCHANGED queueVars
    /\ UNCHANGED jobVars

\* deactivate
Deactivate ==
    /\ currentSessionId # NoSession
    /\ currentSessionId' = NoSession
    /\ UNCHANGED <<fs, now, freshIds, processedRiskTimestamps, geminiLastCallMs,
                   geminiQueue, geminiDraining, drainTimer, handlers, inflight,
                   notified, staleHits, queuedBehind, enqueued, fired>>
    /\ UNCHANGED queueVars
    /\ UNCHANGED jobVars

\* a hook process appends its event to the log; the hooks take the session
\* id from the environment variable activate has set
HookAppend(e) ==
    /\ LET log == WatchedEvents
           n   == Len(FilterByType(log, "risk-assessed"))
       IN  /\ Len(log) < MaxWatchLog
           /\ n < Len(HookLog)
           /\ e = HookLog[n + 1]
    /\ \A k \in 1..Len(freshIds) : freshIds[k] # e.sessionId
    /\ fs' = [fs EXCEPT ![Canon] = AppendedLog(@, e)]
    /\ UNCHANGED watchVars
    /\ UNCHANGED queueVars

Pending == BagToSet(handlers)

\* onDidChange / onDidCreate: handleMetricsChange up to its await
Notify ==
    /\ freshIds # AllIds             \* the watcher is created by activate
    /\ notified < MaxNotify
    /\ notified' = notified + 1
    /\ handlers' =
          IF currentSessionId = NoSession THEN handlers
          ELSE handlers (+) SetToBag({[sid |-> currentSessionId, pc |-> "reading",
                                       events |-> <<>>, late |-> {}]})
    /\ UNCHANGED <<fs, now, freshIds, currentSessionId, processedRiskTimestamps,
                   geminiLastCallMs, geminiQueue, geminiDraining, drainTimer,
                   inflight, staleHits, queuedBehind, enqueued, fired>>
    /\ UNCHANGED queueVars
    /\ UNCHANGED jobVars

\* readEventsBySession(currentSessionId, workspaceRoot) reads the file
ReadDone(h) ==
    /\ h.pc = "reading"
    /\ \E fail \in BOOLEAN :
          /\ fail => fs[Canon].exists
          /\ handlers' = (handlers (-) SetToBag({h})) (+) SetToBag({[h EXCEPT
                 !.pc = "loaded",
                 !.events = FilterBySession(ReadEvents(fs[Canon], fail).events,
                                            h.sid)]})
    /\ UNCHANGED <<fs, now, freshIds, currentSessionId, processedRiskTimestamps,
                   geminiLastCallMs, geminiQueue, geminiDraining, drainTimer,
                   inflight, notified, staleHits, queuedBehind, enqueued, fired>>
    /\ UNCHANGED queueVars
    /\ UNCHANGED jobVars

RECURSIVE SumCopies(_, _)
SumCopies(S, B) ==
    IF S = {} THEN 0
    ELSE LET x == CHOOSE x \in S : TRUE IN B[x] + SumCopies(S \ {x}, B)

\* the handlers still at their await learn what has just been enqueued
Overtaken(B, added) ==
    LET Mark(h) == [h EXCEPT !.late = @ \cup added]
    IN  [y \in {Mark(h) : h \in DOMAIN B} |->
            SumCopies({h \in DOMAIN B : Mark(h) = y}, B)]

\* handleMetricsChange after its await: the loop, with the enqueues and the
\* start of the drain loop it makes
Continue(h) ==
    /\ h.pc = "loaded"
    /\ LET d == ScanEvents(h.events, h.late, Disp, now, currentSessionId)
       IN  /\ SetDisp(d)
           /\ handlers' = Overtaken(handlers (-) SetToBag({h}),
                                    d.processed \ processedRiskTimestamps)
    /\ UNCHANGED <<fs, now, freshIds, currentSessionId, notified>>
    /\ UNCHANGED queueVars
    /\ UNCHANGED jobVars

\* mutant: after the wait the loop takes the closure queued last
DrainResumeNewest ==
    /\ drainTimer.set
    /\ now >= drainTimer.at
    /\ LET waiting == <<drainTimer.fn>> \o geminiQueue
           fn      == waiting[Len(waiting)]
           rest    == SubSeq(waiting, 1, Len(waiting) - 1)
       IN  SetDisp(DrainLoop(
               CallFn([Disp EXCEPT !.timer = NoTimer, !.last = now, !.queue = rest],
                      fn, now, currentSessionId),
               now, currentSessionId))
    /\ UNCHANGED <<fs, now, freshIds, currentSessionId, handlers, notified>>
    /\ UNCHANGED queueVars
    /\ UNCHANGED jobVars

\* mutant: the loop awaits the run it has started before it goes on
DrainResumeAwaits ==
    /\ drainTimer.set
    /\ now >= drainTimer.at
    /\ inflight = <<>>
    /\ SetDisp(DrainLoop(
           CallFn([Disp EXCEPT !.timer = NoTimer, !.last = now], drainTimer.fn, now,
                  currentSessionId),
           now, currentSessionId))
    /\ UNCHANGED <<fs, now, freshIds, currentSessionId, handlers, notified>>
    /\ UNCHANGED queueVars
    /\ UNCHANGED jobVars

\* the pacing wait is over: the held closure is called and the loop goes on
DrainResume ==
    /\ drainTimer.set
    /\ now >= drainTimer.at
    /\ SetDisp(DrainLoop(
           CallFn([Disp EXCEPT !.timer = NoTimer, !.last = now], drainTimer.fn, now,
                  currentSessionId),
           now, currentSessionId))
    /\ UNCHANGED <<fs, now, freshIds, currentSessionId, handlers, notified>>
    /\ UNCHANGED queueVars
    /\ UNCHANGED jobVars

RemoveAt(s, i) == [k \in 1..(Len(s) - 1) |-> IF k < i THEN s[k] ELSE s[k + 1]]

\* llmTrigger.ts, processRiskEvent: its way from one await to the next

\* the diff recorded for an edit of the file
DiffOf(file) == IF file = "a.ts" THEN "diff-a" ELSE "diff-b"

NotAString == "not-a-string"

NoSidecar == [kind |-> "absent", file |-> "none", diff |-> "none"]

\* what diff-context.json can hold: nothing parsable (a write under way),
\* the diff of an edit of either file, a diff that is no string
SidecarPool ==
    {[kind |-> "garbage", file |-> "none", diff |-> "none"]}
    \cup {[kind |-> "json", file |-> f, diff |-> DiffOf(f)] : f \in {"a.ts", "b.ts"}}
    \cup {[kind |-> "json", file |-> "a.ts", diff |-> NotAString]}

\* the hook of an edit writes the sidecar
WriteSidecar(v) ==
    /\ sidecar # v
    /\ sidecar' = v
    /\ UNCHANGED <<fs, now, freshIds, currentSessionId, processedRiskTimestamps,
                   geminiLastCallMs, geminiQueue, geminiDraining, drainTimer,
                   handlers, inflight, notified, staleHits, queuedBehind, enqueued,
                   fired, called, returned, lostJobs, hookVars>>
    /\ UNCHANGED queueVars

\* mutant: the sidecar's file is not compared with the event's
SidecarDiffUnmatched(sc, file, fail) ==
    IF fail \/ sc.kind # "json" THEN ""
    ELSE IF sc.diff # NotAString THEN sc.diff ELSE ""

\* lines 34-47: the diff taken from the sidecar; fail: readFile rejects
SidecarDiff(sc, file, fail) ==
    IF fail \/ sc.kind # "json" THEN ""
    ELSE IF sc.file = file /\ sc.diff # NotAString THEN sc.diff ELSE ""

SetJob(j, job) == inflight' = [inflight EXCEPT ![j] = job]

\* lines 30-47: up to the read of the sidecar, and what is made of it
ReadSidecar(j) ==
    /\ inflight[j].pc = "sidecar"
    /\ \E fail \in BOOLEAN :
          /\ fail => sidecar.kind # "absent"
          /\ SetJob(j, [inflight[j] EXCEPT
                 !.pc = "file",
                 !.diff = SidecarDiff(sidecar, inflight[j].ev.file,
                                      fail \/ sidecar.kind = "absent")])
    /\ UNCHANGED <<fs, now, freshIds, currentSessionId, processedRiskTimestamps,
                   geminiLastCallMs, geminiQueue, geminiDraining, drainTimer,
                   handlers, notified, staleHits, queuedBehind, enqueued, fired>>
    /\ UNCHANGED queueVars
    /\ UNCHANGED jobVars

\* lines 49-64: the read of the edited file is over, with its text or, when
\* it failed, with nothing, and geminiCaller is called
ReadPostEdit(j) ==
    /\ inflight[j].pc = "file"
    /\ \E fail \in BOOLEAN :
          LET contents == IF fail THEN "" ELSE "text"
          IN  /\ SetJob(j, [inflight[j] EXCEPT !.pc = "call", !.contents = contents,
                                              !.startMs = now])
              /\ called' = Append(called, [ev |-> inflight[j].ev,
                                           diff |-> inflight[j].diff,
                                           contents |-> contents, at |-> now])
    /\ UNCHANGED <<fs, now, freshIds, currentSessionId, processedRiskTimestamps,
                   geminiLastCallMs, geminiQueue, geminiDraining, drainTimer,
                   handlers, notified, staleHits, queuedBehind, enqueued, fired,
                   sidecar, returned, lostJobs, hookVars>>
    /\ UNCHANGED queueVars

\* how geminiCaller settles: it resolves to null or to an explanation, or
\* (a caller other than callGemini) it rejects
Results == {"null", "rejects", "why-1", "why-2"}

NoResult == {"null", "rejects"}

NoReturn == [ev |-> NoEv, result |-> "null", ok |-> TRUE, settled |-> "resolved"]

\* mutant: what is thrown in the body leaves the function
CaughtNot(threw) == IF threw THEN "rejected" ELSE "resolved"

\* lines 29, 84-86: the try around the whole body, and its empty catch
Caught(threw) == "resolved"

\* lines 64-87: geminiCaller has settled.  No result ends the run; an
\* explanation is appended as an llm-analysis event.  ok: the append went
\* through (appendEvent resolves when it did not).
GeminiReturns(j) ==
    /\ inflight[j].pc = "call"
    /\ inflight' = RemoveAt(inflight, j)
    /\ \E result \in Results, ok \in BOOLEAN :
          /\ (result \in NoResult) => ok
          /\ ok => HasRoom \/ result \in NoResult
          /\ returned' = [ev |-> inflight[j].ev, result |-> result, ok |-> ok,
                          settled |-> Caught(result = "rejects")]
          /\ fs' = IF result \notin NoResult /\ ok
                   THEN [fs EXCEPT ![Canon] =
                            AppendedLog(@, LlmEv(now, inflight[j].sid,
                                                 inflight[j].ev.file,
                                                 inflight[j].ev.timestamp, result,
                                                 (now - inflight[j].startMs) \div 1000))]
                   ELSE fs
    /\ UNCHANGED <<now, freshIds, currentSessionId, processedRiskTimestamps,
                   geminiLastCallMs, geminiQueue, geminiDraining, drainTimer,
                   handlers, notified, staleHits, queuedBehind, enqueued, fired,
                   sidecar, called, lostJobs, hookVars>>
    /\ UNCHANGED queueVars

\* processRiskEvent from its first line to its last, for the watcher, where
\* only its end counts: an explanation is appended as an llm-analysis event;
\* no result, or a failed append, leaves the log alone
CallSettles(j) ==
    /\ inflight' = RemoveAt(inflight, j)
    /\ \E result \in {"explanation", "null"} :
          fs' = IF result = "explanation" /\ HasRoom
                THEN [fs EXCEPT ![Canon] =
                         AppendedLog(@, LlmEv(now, inflight[j].sid,
                                              inflight[j].ev.file,
                                              inflight[j].ev.timestamp, result, 0))]
                ELSE fs
    /\ UNCHANGED <<now, freshIds, currentSessionId, processedRiskTimestamps,
                   geminiLastCallMs, geminiQueue, geminiDraining, drainTimer,
                   handlers, notified, staleHits, queuedBehind, enqueued, fired>>
    /\ UNCHANGED queueVars
    /\ UNCHANGED jobVars

\* the jobs under way: on the queue, held by the pacing wait, or running
JobsUnderWay ==
    {geminiQueue[k].timestamp : k \in 1..Len(geminiQueue)}
    \cup (IF drainTimer.set THEN {drainTimer.fn.timestamp} ELSE {})
    \cup {inflight[k].ev.timestamp : k \in 1..Len(inflight)}

\* The extension host is restarted once: the process ends with all that is
\* in its memory (lines 10-21), the files stay, and the module is loaded
\* anew; activate will then issue the next session id.
Restart ==
    /\ freshIds # AllIds
    /\ freshIds # <<>>
    /\ currentSessionId' = NoSession
    /\ processedRiskTimestamps' = {}
    /\ geminiLastCallMs' = 0
    /\ geminiQueue' = <<>>
    /\ geminiDraining' = FALSE
    /\ drainTimer' = NoTimer
    /\ handlers' = EmptyBag
    /\ inflight' = <<>>
    /\ lostJobs' = lostJobs \cup JobsUnderWay
    /\ UNCHANGED <<fs, now, freshIds, notified, staleHits, queuedBehind, enqueued,
                   fired, sidecar, called, returned, hookVars>>
    /\ UNCHANGED queueVars

\* Time passes.  The clock is followed only while a pacing interval runs:
\* outside of it the time elapsed changes no decision of the dispatcher.
\* It always reaches the wake-up time of a pending pacing wait.
Tick ==
    /\ \/ drainTimer.set /\ now < drainTimer.at
       \/ /\ now < StartMs + MaxTicks * TickMs
          /\ drainTimer.set \/ now < geminiLastCallMs + GEMINI_MIN_INTERVAL_MS
    /\ now' = now + TickMs
    /\ UNCHANGED <<fs, freshIds, currentSessionId, processedRiskTimestamps,
                   geminiLastCallMs, geminiQueue, geminiDraining, drainTimer,
                   handlers, inflight, notified, staleHits, queuedBehind, enqueued, fired>>
    /\ UNCHANGED queueVars
    /\ UNCHANGED jobVars

\* the extension process before activate
WatchIdle ==
    /\ now = StartMs
    /\ freshIds = AllIds
    /\ currentSessionId = NoSession
    /\ processedRiskTimestamps = {}
    /\ geminiLastCallMs = 0
    /\ geminiQueue = <<>>
    /\ geminiDraining = FALSE
    /\ drainTimer = NoTimer
    /\ handlers = EmptyBag
    /\ inflight = <<>>
    /\ notified = 0
    /\ staleHits = {}
    /\ queuedBehind = {}
    /\ enqueued = <<>>
    /\ fired = <<>>
    /\ sidecar = NoSidecar
    /\ called = <<>>
    /\ returned = NoReturn
    /\ lostJobs = {}
    /\ HooksIdle

NextWatch ==
    \/ Activate
    \/ Deactivate
    \/ \E e \in {HookLog[k] : k \in {HookCount + 1} \cap DOMAIN HookLog} : HookAppend(e)
    \/ Notify
    \/ \E h \in Pending : ReadDone(h)
    \/ \E h \in Pending : Continue(h)
    \/ DrainResume
    \/ \E j \in 1..Len(inflight) : CallSettles(j)
    \/ Tick

\* the watcher, with the one restart of its process
NextRestart == NextWatch \/ Restart

InitWatch ==
    /\ dirExists = TRUE
    /\ fs = [x \in Paths |-> Absent]
    /\ log0 = Absent
    /\ calls = [p \in Procs |-> <<>>]
    /\ alive = [p \in Procs |-> TRUE]
    /\ budget = 0
    /\ raced = FALSE
    /\ lastRead = NoRead
    /\ lastWin = NoEv
    /\ WatchIdle

\* The dispatcher with the runs it starts, whatever the watcher hands it; the
\* runs are followed up to their call of the external service.

\* the qualifying events of the session, in the order of the log
JobLog ==
    [k \in 1..MaxJobs |->
        Ev(k, "s1", "risk-assessed", IF k % 2 = 1 THEN "high" ELSE "medium")]

\* lines 160-170 of handleMetricsChange for the events it has read: the first
\* n of the session
Arrive(n) ==
    /\ n > Len(enqueued)
    /\ SetDisp(ScanEvents(Prefix(JobLog, n), {}, Disp, now, currentSessionId))
    /\ UNCHANGED <<fs, now, freshIds, currentSessionId, handlers, notified>>
    /\ UNCHANGED queueVars
    /\ UNCHANGED jobVars

NextDispatch ==
    \/ \E n \in 1..MaxJobs : Arrive(n)
    \/ DrainResume
    \/ \E j \in 1..Len(inflight) : ReadSidecar(j)
    \/ \E j \in 1..Len(inflight) : ReadPostEdit(j)
    \/ Tick

\* the extension when activate has returned
WatchActive ==
    /\ now = StartMs
    /\ freshIds = Tail(AllIds)
    /\ currentSessionId = Head(AllIds)
    /\ processedRiskTimestamps = {}
    /\ geminiLastCallMs = 0
    /\ geminiQueue = <<>>
    /\ geminiDraining = FALSE
    /\ drainTimer = NoTimer
    /\ handlers = EmptyBag
    /\ inflight = <<>>
    /\ notified = 0
    /\ staleHits = {}
    /\ queuedBehind = {}
    /\ enqueued = <<>>
    /\ fired = <<>>
    /\ sidecar = NoSidecar
    /\ called = <<>>
    /\ returned = NoReturn
    /\ lostJobs = {}
    /\ HooksIdle

\* no appendEvent call of the writer model is under way
WriterIdle ==
    /\ dirExists = TRUE
    /\ log0 = Absent
    /\ calls = [p \in Procs |-> <<>>]
    /\ alive = [p \in Procs |-> TRUE]
    /\ budget = 0
    /\ raced = FALSE
    /\ lastRead = NoRead
    /\ lastWin = NoEv

InitDispatch ==
    /\ fs = [x \in Paths |-> Absent]
    /\ WriterIdle
    /\ WatchActive

\* The dispatcher while the session ends and the next one begins: the jobs
\* are enqueued by handlers that run within the session of their events.

\* lines 142-170: a handler that found the session set and has read its events
ArriveInSession(n) ==
    /\ currentSessionId = JobLog[n].sessionId
    /\ Arrive(n)

NextSession ==
    \/ \E n \in 1..MaxJobs : ArriveInSession(n)
    \/ DrainResume
    \/ Deactivate
    \/ Activate
    \/ \E j \in 1..Len(inflight) : CallSettles(j)
    \/ Tick

\* The watcher over a log in which two distinct qualifying events of the
\* session bear one timestamp.

DupLog == <<HookLog[2], HookLog[3]>>

InitDedup ==
    /\ fs = [x \in Paths |-> IF x = Canon THEN File(Stringify(DupLog)) ELSE Absent]
    /\ WriterIdle
    /\ WatchActive

NextDedup ==
    \/ Notify
    \/ \E h \in Pending : ReadDone(h)
    \/ \E h \in Pending : Continue(h)
    \/ \E j \in 1..Len(inflight) : CallSettles(j)
    \/ Deactivate
    \/ Tick

\* The watcher over a log that holds the risk events of the session and to
\* which the hooks append no more: what follows is the extension's own doing.

QuiesceLog == <<HookLog[1], HookLog[2]>>

InitQuiesce ==
    /\ fs = [x \in Paths |-> IF x = Canon THEN File(Stringify(QuiesceLog)) ELSE Absent]
    /\ WriterIdle
    /\ WatchActive

\* processRiskEvent by itself: the runs start when their closures are called,
\* with the log holding the events they are about.

\* lines 38-39 of drainGeminiQueue: the closure of the next event is called
StartRun(k) ==
    /\ k = Len(fired) + 1
    /\ SetDisp(CallFn([Disp EXCEPT !.last = now], JobLog[k], now, currentSessionId))
    /\ UNCHANGED <<fs, now, freshIds, currentSessionId, handlers, notified>>
    /\ UNCHANGED queueVars
    /\ UNCHANGED jobVars

NextJob ==
    \/ \E k \in 1..MaxRuns : StartRun(k)
    \/ \E v \in SidecarPool : WriteSidecar(v)
    \/ \E j \in 1..Len(inflight) : ReadSidecar(j)
    \/ \E j \in 1..Len(inflight) : ReadPostEdit(j)
    \/ \E j \in 1..Len(inflight) : GeminiReturns(j)
    \/ Tick

InitJob ==
    /\ fs = [x \in Paths |->
                IF x = Canon THEN File(Stringify(Prefix(JobLog, MaxRuns))) ELSE Absent]
    /\ WriterIdle
    /\ WatchActive

----------------------------------------------------------------------------
(* The log store *)

\* what metrics.json may hold before the first append: nothing, a complete
\* array, or content left by something else (empty file, an object, a
\* truncated array, garbage)
InitContents ==
    {Absent}
    \cup {File(Stringify(s)) : s \in OldLogs}
    \cup {File(<<>>), File(<<LC, RC>>), File(<<LC, RB>>),
          File(<<LB, EvTok(OldEvent(1))>>)}

InitStore ==
    /\ dirExists \in BOOLEAN
    /\ \E c \in InitContents :
          /\ ~dirExists => c = Absent
          /\ fs = [x \in Paths |-> IF x = Canon THEN c ELSE Absent]
          /\ log0 = c
    /\ calls = [p \in Procs |-> <<>>]
    /\ alive = [p \in Procs |-> TRUE]
    /\ budget = MaxCalls
    /\ raced = FALSE
    /\ lastRead = NoRead
    /\ lastWin = NoEv
    /\ WatchIdle

\* the steps of the processes in P running writer.ts
WriterStep(P) ==
    \/ \E p \in P : \E e \in CallPool(p, Len(calls[p]) + 1) : AppendEvent(p, e)
    \/ \E p \in P : \E i \in 1..Len(calls[p]) : Access(p, i)
    \/ \E p \in P : \E i \in 1..Len(calls[p]) : Mkdir(p, i)
    \/ \E p \in P : \E i \in 1..Len(calls[p]) : ReadFile(p, i)
    \/ \E p \in P : \E i \in 1..Len(calls[p]) : WriteFileBegin(p, i)
    \/ \E p \in P : \E i \in 1..Len(calls[p]) : WriteFileEnd(p, i)
    \/ \E p \in P : \E i \in 1..Len(calls[p]) : Rename(p, i)
    \/ \E p \in P : \E i \in 1..Len(calls[p]) : Unlink(p, i)

ReaderStep ==
    \/ DoReadEvents
    \/ DoReadEventsBySession
    \/ DoReadEventsByType

\* one process appending (the extension), and a reader of all events
NextStore == WriterStep({"ext"}) \/ DoReadEvents

\* several processes appending to the same log, any of which may crash
NextMulti == WriterStep(Procs) \/ (\E p \in Procs : Crash(p))

\* the log as the writers leave it: absent or a complete array
InitMulti ==
    /\ dirExists \in BOOLEAN
    /\ \E c \in {Absent, File(Stringify([k \in 1..MaxInit |-> OldEvent(k)]))} :
          /\ dirExists <=> c # Absent
          /\ fs = [x \in Paths |-> IF x = Canon THEN c ELSE Absent]
          /\ log0 = c
    /\ calls = [p \in Procs |-> <<>>]
    /\ alive = [p \in Procs |-> TRUE]
    /\ budget = MaxMultiCalls
    /\ raced = FALSE
    /\ lastRead = NoRead
    /\ lastWin = NoEv
    /\ WatchIdle

\* readers over a log holding any content
MaxLog == 3

InitRead ==
    /\ dirExists = TRUE
    /\ \E c \in InitContents \cup {File(Stringify(s)) : s \in SeqsUpTo(EventPool, MaxLog)} :
          /\ fs = [x \in Paths |-> IF x = Canon THEN c ELSE Absent]
          /\ log0 = c
    /\ calls = [p \in Procs |-> <<>>]
    /\ alive = [p \in Procs |-> TRUE]
    /\ budget = 0
    /\ raced = FALSE
    /\ lastRead = NoRead
    /\ lastWin = NoEv
    /\ WatchIdle

Init == InitStore
Next == NextStore
vars == <<storeVars, watchVars>>
Spec == Init /\ [][Next]_vars
SpecMulti == InitMulti /\ [][NextMulti]_vars
SpecRead == InitRead /\ [][ReaderStep]_vars
SpecWatch == InitWatch /\ [][NextWatch]_vars

\* the clock runs and the timer of a pacing wait fires
SpecDispatch == InitDispatch /\ [][NextDispatch]_vars
SpecJob == InitJob /\ [][NextJob]_vars
SpecRestart == InitWatch /\ [][NextRestart]_vars
SpecDispatchLive == SpecDispatch /\ WF_vars(Tick) /\ WF_vars(DrainResume)
SpecSession == InitDispatch /\ [][NextSession]_vars
SpecDedup == InitDedup /\ [][NextDedup]_vars

\* a run of processRiskEvent comes to its end
RunSettles == \E j \in 1..Len(inflight) : CallSettles(j)

NextQuiesce ==
    \/ Notify
    \/ \E h \in Pending : ReadDone(h)
    \/ \E h \in Pending : Continue(h)
    \/ DrainResume
    \/ RunSettles
    \/ Deactivate
    \/ Tick

\* no outside appends, the timers firing and the external calls returning
SpecQuiesce ==
    /\ InitQuiesce /\ [][NextQuiesce]_vars
    /\ WF_vars(Tick) /\ WF_vars(DrainResume) /\ WF_vars(RunSettles)

\* the watcher with its timers firing and the external calls returning
SpecWatchLive ==
    SpecWatch /\ WF_vars(Tick) /\ WF_vars(DrainResume) /\ WF_vars(RunSettles)

\* a step of a doAppend run of the extension: the I/O it awaits comes back
DoAppendStep ==
    \E i \in 1..Len(calls["ext"]) :
        \/ Access("ext", i)
        \/ Mkdir("ext", i)
        \/ ReadFile("ext", i)
        \/ WriteFileBegin("ext", i)
        \/ WriteFileEnd("ext", i)
        \/ Rename("ext", i)
        \/ Unlink("ext", i)

\* the log store with every awaited I/O step coming back in the end
SpecLive == Spec /\ WF_vars(DoAppendStep)

----------------------------------------------------------------------------
(* The rules engine by itself *)

InitScore ==
    /\ fs = [x \in Paths |-> Absent]
    /\ WriterIdle
    /\ now = StartMs
    /\ freshIds = AllIds
    /\ currentSessionId = NoSession
    /\ processedRiskTimestamps = {}
    /\ geminiLastCallMs = 0
    /\ geminiQueue = <<>>
    /\ geminiDraining = FALSE
    /\ drainTimer = NoTimer
    /\ handlers = EmptyBag
    /\ inflight = <<>>
    /\ notified = 0
    /\ staleHits = {}
    /\ queuedBehind = {}
    /\ enqueued = <<>>
    /\ fired = <<>>
    /\ sidecar = NoSidecar
    /\ called = <<>>
    /\ returned = NoReturn
    /\ lostJobs = {}
    /\ riskInput \in RiskInputs
    /\ riskResult = NoScore
    /\ AnalyzeIdle
    /\ SanityIdle

\* computeRiskScore(input) returns
Score ==
    /\ riskResult = NoScore
    /\ riskResult' = computeRiskScore(riskInput)
    /\ UNCHANGED <<storeVars, now, freshIds, currentSessionId, processedRiskTimestamps,
                   geminiLastCallMs, geminiQueue, geminiDraining, drainTimer,
                   handlers, inflight, notified, staleHits, queuedBehind, enqueued,
                   fired, sidecar, called, returned, lostJobs, riskInput, analyzeVars,
                   sanityVars>>

NextScore == Score

SpecScore == InitScore /\ [][NextScore]_vars

----------------------------------------------------------------------------
(* The analyzer by itself *)

\* the extension and the rules engine at rest
OthersIdle ==
    /\ fs = [x \in Paths |-> Absent]
    /\ WriterIdle
    /\ now = StartMs
    /\ freshIds = AllIds
    /\ currentSessionId = NoSession
    /\ processedRiskTimestamps = {}
    /\ geminiLastCallMs = 0
    /\ geminiQueue = <<>>
    /\ geminiDraining = FALSE
    /\ drainTimer = NoTimer
    /\ handlers = EmptyBag
    /\ inflight = <<>>
    /\ notified = 0
    /\ staleHits = {}
    /\ queuedBehind = {}
    /\ enqueued = <<>>
    /\ fired = <<>>
    /\ sidecar = NoSidecar
    /\ called = <<>>
    /\ returned = NoReturn
    /\ lostJobs = {}

\* any two files, the analyzer called with any two of the paths
InitAnalyze ==
    /\ OthersIdle
    /\ ScoreIdle
    /\ SanityIdle
    /\ snapshots \in [SnapPaths -> FileStates]
    /\ analyzeArgs \in [before : SnapPaths, after : SnapPaths]
    /\ analysis = NoAnalysis

\* two snapshots of numbered functions: `deleted` only before, `common` in
\* both, `added` only after
InitPercent ==
    /\ OthersIdle
    /\ ScoreIdle
    /\ SanityIdle
    /\ \E common \in 0..MaxNames :
          \E deleted \in 0..(MaxNames - common), added \in 0..(MaxNames - common) :
             snapshots = [p \in SnapPaths |->
                            IF p = "before.ts" THEN FnBlock(1, deleted + common)
                            ELSE FnBlock(deleted + 1, deleted + common + added)]
    /\ analyzeArgs = [before |-> "before.ts", after |-> "after.ts"]
    /\ analysis = NoAnalysis

\* analyzeStructuralChange(beforePath, afterPath) returns
Analyze ==
    /\ analysis = NoAnalysis
    /\ analysis' = analyzeStructuralChange(snapshots, analyzeArgs.before, analyzeArgs.after)
    /\ UNCHANGED <<storeVars, now, freshIds, currentSessionId, processedRiskTimestamps,
                   geminiLastCallMs, geminiQueue, geminiDraining, drainTimer,
                   handlers, inflight, notified, staleHits, queuedBehind, enqueued,
                   fired, sidecar, called, returned, lostJobs, scoreVars,
                   snapshots, analyzeArgs, sanityVars>>

NextAnalyze == Analyze

SpecAnalyze == InitAnalyze /\ [][NextAnalyze]_vars
SpecPercent == InitPercent /\ [][NextAnalyze]_vars

----------------------------------------------------------------------------
(* The sanity check by itself: one run after the other on one file *)

InitSanity ==
    /\ OthersIdle
    /\ ScoreIdle
    /\ AnalyzeIdle
    /\ sanityPc = "idle"
    /\ sanityIsTs \in BOOLEAN
    /\ toolsRun = <<>>
    /\ retryState \in SeedPool
    /\ retryEntry = loadRetryEntry(NoEntry)
    /\ sanityOutcome = NoOutcome
    /\ failStreak = 0
    /\ sanityRuns = 0

\* what a step of the sanity check leaves alone
SanityFrame ==
    UNCHANGED <<storeVars, now, freshIds, currentSessionId, processedRiskTimestamps,
                geminiLastCallMs, geminiQueue, geminiDraining, drainTimer,
                handlers, inflight, notified, staleHits, queuedBehind, enqueued,
                fired, sidecar, called, returned, lostJobs, scoreVars, analyzeVars,
                sanityIsTs>>

\* main, lines 245-256: the hook is started for the file and loads its entry
SanityStart ==
    /\ sanityPc = "idle"
    /\ sanityRuns < MaxSanityRuns
    /\ sanityRuns' = sanityRuns + 1
    /\ retryEntry' = loadRetryEntry(retryState)
    /\ toolsRun' = <<>>
    /\ sanityPc' = "tools"
    /\ UNCHANGED <<retryState, sanityOutcome, failStreak>>
    /\ SanityFrame

\* runSanityChecks, lines 136-188: the next tool is called and passes or fails
RunTool ==
    /\ sanityPc = "tools"
    /\ Len(toolsRun) < Len(ToolOrder(sanityIsTs))
    /\ \E passed \in BOOLEAN :
          toolsRun' = Append(toolsRun,
                             [tool |-> ToolOrder(sanityIsTs)[Len(toolsRun) + 1],
                              passed |-> passed])
    /\ UNCHANGED <<sanityPc, retryState, retryEntry, sanityOutcome, failStreak, sanityRuns>>
    /\ SanityFrame

\* main, lines 259-295: every tool passed
ConcludePassed ==
    /\ sanityPc = "tools"
    /\ Len(toolsRun) = Len(ToolOrder(sanityIsTs))
    /\ AllPassed(ResultsOf(toolsRun))
    /\ retryState' = saveRetryEntry(retryState, 0, MaxRetriesOf(retryEntry), <<>>)
    /\ sanityOutcome' = [events |-> <<SanityPassed>>, exitCode |-> 0,
                         maxRetries |-> MaxRetriesOf(retryEntry)]
    /\ failStreak' = 0
    /\ sanityPc' = "idle"
    /\ UNCHANGED <<toolsRun, retryEntry, sanityRuns>>
    /\ SanityFrame

\* main, lines 297-379: some tool failed
ConcludeFailed ==
    /\ sanityPc = "tools"
    /\ Len(toolsRun) = Len(ToolOrder(sanityIsTs))
    /\ ~AllPassed(ResultsOf(toolsRun))
    /\ LET results == ResultsOf(toolsRun)
           maxRetries == MaxRetriesOf(retryEntry)
           newRetryCount == NewRetryCount(retryEntry)
       IN  /\ retryState' = saveRetryEntry(retryState, newRetryCount, maxRetries,
                                           generateErrorSummary(results))
           /\ sanityOutcome' = [events |-> FailedEvents(results, newRetryCount, maxRetries),
                                exitCode |-> ExitCodeOf(newRetryCount, maxRetries),
                                maxRetries |-> maxRetries]
    /\ failStreak' = failStreak + 1
    /\ sanityPc' = "idle"
    /\ UNCHANGED <<toolsRun, retryEntry, sanityRuns>>
    /\ SanityFrame

NextSanity == SanityStart \/ RunTool \/ ConcludePassed \/ ConcludeFailed

SpecSanity == InitSanity /\ [][NextSanity]_vars

----------------------------------------------------------------------------
(* Definitions for the properties *)

\* the events a reader finds in the initial log
InitEvents == IF IsCompleteArray(log0) THEN JsonParse(log0.data).events ELSE <<>>

\* the events metrics.json holds now
LogEvents == JsonParse(fs[Canon].data).events

Settled(p)   == {i \in 1..Len(calls[p]) : calls[p][i].promise # "pending"}
Running(p)   == {i \in 1..Len(calls[p]) : calls[p][i].pc \notin {"queued", "done"}}
Clean(p, i)  == calls[p][i].fault = "none" /\ ~calls[p][i].readErr
AllSettled(p) == Settled(p) = 1..Len(calls[p])

\* the events of p's first n calls, in call order
CallEvents(p, n) == [i \in 1..n |-> calls[p][i].ev]

Wins == {c \in {<<p, i>> : p \in Procs, i \in 1..MaxPaths} :
            /\ c[2] <= Len(calls[c[1]])
            /\ calls[c[1]][c[2]].pc = "done"
            /\ calls[c[1]][c[2]].fault = "none"}
Lost == Cardinality(Wins) - (Len(LogEvents) - Len(InitEvents))

Quiescent ==
    \A p \in Procs : alive[p] /\ AllSettled(p) /\ \A i \in 1..Len(calls[p]) : Clean(p, i)

Corrupt0 == log0.exists /\ ~IsCompleteArray(log0)

\* C5: an append onto a log holding unparsable or non-array content resets
\* the sequence: the corruption is no error of the append, and a read after
\* the append returns exactly the new event.
C5_ResetOnCorrupt ==
    (Corrupt0 /\ Len(calls["ext"]) >= 1 /\ calls["ext"][1].pc = "done") =>
        /\ calls["ext"][1].promise = "fulfilled"
        /\ calls["ext"][1].fault # "load"
        /\ (/\ Clean("ext", 1)
            /\ Settled("ext") = {1}
            /\ lastRead.kind = "all"
            /\ ~lastRead.readErr) => lastRead.result = <<calls["ext"][1].ev>>

C5_Witness ==
    /\ Corrupt0
    /\ ~JsonParse(log0.data).ok
    /\ Settled("ext") = {1}
    /\ Clean("ext", 1)
    /\ lastRead.kind = "all"
    /\ lastRead.result = <<calls["ext"][1].ev>>

\* a step in which call i of the extension settles
Settles(i) == calls["ext"][i].pc # "done" /\ calls'["ext"][i].pc = "done"

\* the parts of C6 that do not depend on the unlink: the promise is never
\* rejected, and metrics.json changes only in the step that completes a
\* successful append, so a failed append leaves it as it was
C6_Common ==
    /\ \A i \in 1..Len(calls["ext"]) : calls'["ext"][i].promise # "rejected"
    /\ \A i \in 1..Len(calls["ext"]) :
          (Settles(i) /\ calls'["ext"][i].fault # "none") =>
              /\ calls'["ext"][i].promise = "fulfilled"
              /\ fs'[Canon] = fs[Canon]
    /\ fs'[Canon] # fs[Canon] =>
          \E i \in 1..Len(calls["ext"]) : Settles(i) /\ calls'["ext"][i].fault = "none"

\* C6 as stated: the promise of appendEvent never rejects whichever step
\* fails, a failed append leaves metrics.json as it was, and when the rename
\* fails the temp file of that append is deleted.
C6_TempAlwaysDeleted ==
    [][/\ C6_Common
       /\ \A i \in 1..Len(calls["ext"]) :
             (Settles(i) /\ calls'["ext"][i].fault \in {"rename", "rename+unlink"})
                 => ~fs'[TempPath("ext", i)].exists]_vars

\* C6 amended: as stated, except that the temp file is deleted only when the
\* unlink that follows the failed rename succeeds; a failing unlink is
\* ignored and leaves the temp file behind.
C6_FailureSwallowed ==
    [][/\ C6_Common
       /\ \A i \in 1..Len(calls["ext"]) :
             /\ (Settles(i) /\ calls'["ext"][i].fault = "rename")
                    => ~fs'[TempPath("ext", i)].exists
             /\ (Settles(i) /\ calls'["ext"][i].fault = "rename+unlink")
                    => fs'[TempPath("ext", i)] = fs[TempPath("ext", i)]]_vars

C6_Witness ==
    /\ Len(calls["ext"]) = 2
    /\ AllSettled("ext")
    /\ calls["ext"][1].fault = "rename"
    /\ calls["ext"][2].fault = "rename+unlink"
    /\ ~fs[TempPath("ext", 1)].exists
    /\ fs[TempPath("ext", 2)].exists
    /\ fs[Canon] = log0
    /\ \A i \in 1..2 : calls["ext"][i].promise = "fulfilled"

Matching(s, Match(_)) == {i \in 1..Len(s) : Match(s[i])}
Kth(I, k) == CHOOSE i \in I : Cardinality({j \in I : j <= i}) = k

\* r holds exactly the events of s that satisfy Match, in the order of s
IsFilterOf(r, s, Match(_)) ==
    /\ Len(r) = Cardinality(Matching(s, Match))
    /\ \A k \in 1..Len(r) : r[k] = s[Kth(Matching(s, Match), k)]

\* what readEvents is to return for the file and the read outcome of lastRead
Unusable == lastRead.readErr \/ ~fs[Canon].exists \/ ~IsCompleteArray(fs[Canon])

\* C8: readEvents never throws; it returns the stored sequence (the array
\* whose serialization the file holds) when the file holds a well-formed
\* array, and the empty sequence when the file is absent, unreadable,
\* unparsable or not an array.
C8_ReadNeverThrows ==
    lastRead.kind = "all" =>
        /\ ~lastRead.threw
        /\ Unusable => lastRead.result = <<>>
        /\ ~Unusable => Stringify(lastRead.result) = fs[Canon].data

C8_Witness ==
    /\ lastRead.kind = "all"
    /\ ~lastRead.readErr
    /\ fs[Canon].exists
    /\ JsonParse(fs[Canon].data).ok
    /\ ~JsonParse(fs[Canon].data).isArray
    /\ lastRead.result = <<>>

\* C9: readEventsBySession and readEventsByType return exactly the events of
\* readEvents whose sessionId (type) equals the argument, in the order of the
\* log, and the empty sequence when none matches.
C9_OrderPreservingFilter ==
    /\ lastRead.kind = "session" =>
          /\ ~lastRead.threw
          /\ IsFilterOf(lastRead.result, ReadEvents(fs[Canon], lastRead.readErr).events,
                        LAMBDA e : e.sessionId = lastRead.arg)
    /\ lastRead.kind = "type" =>
          /\ ~lastRead.threw
          /\ IsFilterOf(lastRead.result, ReadEvents(fs[Canon], lastRead.readErr).events,
                        LAMBDA e : e.type = lastRead.arg)

C9_Witness ==
    /\ lastRead.kind = "session"
    /\ lastRead.arg = "s1"
    /\ Len(LogEvents) = 3
    /\ LogEvents[1].sessionId = "s1"
    /\ LogEvents[2].sessionId = "s2"
    /\ LogEvents[3].sessionId = "s1"
    /\ LogEvents[1] # LogEvents[3]
    /\ lastRead.result = <<LogEvents[1], LogEvents[3]>>

\* how often an event of timestamp ts was enqueued, and how often called
TimesEnqueued(ts) == Cardinality({k \in 1..Len(enqueued) : enqueued[k].timestamp = ts})
TimesFired(ts)    == Cardinality({k \in 1..Len(fired) : fired[k].ev.timestamp = ts})

WatchedTimestamps == {HookLog[k].timestamp : k \in 1..Len(HookLog)}

\* C10: in one process, whatever the watcher notifications and however their
\* reads overlap, no event identity (timestamp) is enqueued twice, and none
\* gets a second processRiskEvent call, whatever became of the first.
C10_EnqueuedOnce ==
    \A ts \in WatchedTimestamps : TimesEnqueued(ts) <= 1 /\ TimesFired(ts) <= 1

\* two handlers were at their await together, one enqueued the event and
\* its call has settled, the other met the same event and left it alone
C10_Witness ==
    \E ts \in staleHits :
        /\ TimesEnqueued(ts) = 1
        /\ TimesFired(ts) = 1
        /\ Pending = {}
        /\ inflight = <<>>
        /\ notified >= 2

\* C11: every job put on the dispatcher queue is fired in the end: when n
\* jobs have been enqueued, n runs are started, whatever arrives meanwhile.
C11_NoJobDropped ==
    \A n \in 1..MaxJobs : (Len(enqueued) >= n) ~> (Len(fired) >= n)

\* three jobs, the third enqueued while the loop was in its pacing wait for
\* the second, all fired
C11_Witness ==
    /\ Len(enqueued) = 3
    /\ Len(fired) = 3
    /\ \A k \in 1..3 : fired[k].ev = enqueued[k]
    /\ fired[1].at < fired[2].at
    /\ fired[2].at < fired[3].at
    /\ geminiQueue = <<>>
    /\ ~geminiDraining
    /\ enqueued[3].timestamp \in queuedBehind

\* C12: the firing times of any two jobs dispatched one after the other are
\* at least GEMINI_MIN_INTERVAL_MS apart, whenever the jobs were enqueued.
C12_FiresPaced ==
    \A k \in 1..(Len(fired) - 1) :
        fired[k + 1].at - fired[k].at >= GEMINI_MIN_INTERVAL_MS

\* three jobs fired, the third of them enqueued while the loop was in its
\* pacing wait
C12_Witness ==
    /\ Len(fired) = 3
    /\ fired[3].ev.timestamp \in queuedBehind
    /\ fired[3].at - fired[2].at = GEMINI_MIN_INTERVAL_MS
    /\ fired[2].at - fired[1].at >= GEMINI_MIN_INTERVAL_MS

\* C13: any two calls of the external service made by dispatched jobs are at
\* least GEMINI_MIN_INTERVAL_MS apart, however long the reads of the sidecar
\* and of the edited file take between the firing of a job and its call.
C13_CallsPaced ==
    \A i, k \in 1..Len(called) :
        i < k => called[k].at - called[i].at >= GEMINI_MIN_INTERVAL_MS

\* C14: whatever is enqueued is a risk-assessed event of level medium or
\* high that belongs to the session current at the time of the enqueue.
C14_OnlyCurrentSessionRisk ==
    [][\A k \in (Len(enqueued) + 1)..Len(enqueued') :
          /\ enqueued'[k].type = "risk-assessed"
          /\ enqueued'[k].level \in {"medium", "high"}
          /\ enqueued'[k].sessionId = currentSessionId]_vars

\* a run of processRiskEvent comes to its end in this step
RunEnds == Len(inflight') < Len(inflight)

\* C15: processRiskEvent never rejects: whatever failed on its way (the read
\* of the sidecar, the read of the file, the external call, the append), the
\* run resolves; and when the call gave no result the log is left as it was.
C15_NeverRejects ==
    [][RunEnds =>
          /\ returned'.settled = "resolved"
          /\ returned'.result \in NoResult => fs' = fs]_vars

\* a run whose two reads failed and whose call rejected has ended
C15_Witness ==
    /\ inflight = <<>>
    /\ Len(called) = 1
    /\ called[1].diff = ""
    /\ called[1].contents = ""
    /\ sidecar.kind = "garbage"
    /\ returned.ev = JobLog[1]
    /\ returned.result = "rejects"
    /\ returned.settled = "resolved"
    /\ WatchedEvents = Prefix(JobLog, MaxRuns)

\* the run that ends in this step
EndingRun == inflight[CHOOSE j \in 1..Len(inflight) : inflight' = RemoveAt(inflight, j)]

\* C16: when the external call returns an explanation (and the append goes
\* through), the run appends exactly one event: an llm-analysis event whose
\* relatedRiskEventTimestamp and file are those of the originating event,
\* whose reasoning is the explanation as returned, with the model identifier
\* and the duration of the call.
C16_AnalysisAppended ==
    [][(RunEnds /\ returned'.result \notin NoResult /\ returned'.ok) =>
          LET job    == EndingRun
              before == WatchedEvents
              after  == WatchedEvents'
              e      == after[Len(after)]
          IN  /\ job.ev = returned'.ev
              /\ Len(after) = Len(before) + 1
              /\ Prefix(after, Len(before)) = before
              /\ e.type = "llm-analysis"
              /\ e.related = job.ev.timestamp
              /\ e.file = job.ev.file
              /\ e.reasoning = returned'.result
              /\ e.model = "gemini-2.5-flash"
              /\ e.duration * 1000 = now - job.startMs]_vars

\* the explanation of a call that took three seconds is in the log, linked
\* to the event of the run
C16_Witness ==
    /\ inflight = <<>>
    /\ returned.result = "why-2"
    /\ returned.ok
    /\ Len(WatchedEvents) = MaxRuns + 1
    /\ LET e == WatchedEvents[MaxRuns + 1]
       IN  /\ e.type = "llm-analysis"
           /\ e.related = JobLog[1].timestamp
           /\ e.file = JobLog[1].file
           /\ e.reasoning = "why-2"
           /\ e.duration = 3
           /\ e.timestamp = called[1].at + 3000

\* the risk-assessed events of a log, each with its position
RiskAt(events) ==
    {<<k, events[k]>> : k \in {n \in 1..Len(events) : events[n].type = "risk-assessed"}}

\* an append of the extension renames its file over the log in this step
Enriches(i) == Settles(i) /\ calls'["ext"][i].fault = "none"

\* C17 as stated: an enrichment changes the log by one event appended at its
\* tail and nothing else: every risk-assessed event that was in the log is
\* in it afterwards, unchanged and at its position.
C17_PurelyAdditive ==
    [][\A i \in 1..Len(calls["ext"]) :
          (Enriches(i) /\ IsCompleteArray(fs[Canon])) =>
              LET after == JsonParse(fs'[Canon].data).events
              IN  /\ Len(after) = Len(LogEvents) + 1
                  /\ Prefix(after, Len(LogEvents)) = LogEvents
                  /\ RiskAt(LogEvents) \subseteq RiskAt(after)]_vars

\* C17 amended: the log an enrichment leaves is the log its append has read
\* with the one event at the tail: the risk-assessed events it has read keep
\* their content and position.  What another process has appended since the
\* read is not in it, and a read that fails counts as an empty log.
C17_AdditiveOverRead ==
    [][\A i \in 1..Len(calls["ext"]) :
          /\ (/\ calls["ext"][i].pc = "read"
              /\ calls'["ext"][i].pc = "write"
              /\ IsCompleteArray(fs[Canon]))
                 => IF calls'["ext"][i].readErr
                    THEN calls'["ext"][i].events = <<calls["ext"][i].ev>>
                    ELSE /\ calls'["ext"][i].events =
                                Append(LogEvents, calls["ext"][i].ev)
                         /\ RiskAt(LogEvents) \subseteq RiskAt(calls'["ext"][i].events)
          /\ Enriches(i)
                 => JsonParse(fs'[Canon].data).events = calls["ext"][i].events]_vars

\* an enrichment has been appended behind the risk-assessed event of a hook
C17_Witness ==
    /\ AllSettled("ext")
    /\ Len(calls["ext"]) >= 1
    /\ IsCompleteArray(fs[Canon])
    /\ Len(LogEvents) >= 2
    /\ LogEvents[Len(LogEvents) - 1] = CHOOSE e \in CallPool("hook", 1) : TRUE
    /\ LogEvents[Len(LogEvents)] = calls["ext"][1].ev
    /\ calls["ext"][1].ev.type = "llm-analysis"

\* C18: the diff passed to the external call for an event is empty or is the
\* diff of a sidecar written for the event's file, however the overwrites of
\* the sidecar fall between the steps of the run; the diff of another file,
\* or what is no string, is never passed.
C18_DiffOfOwnFile ==
    \A k \in 1..Len(called) :
        called[k].diff \in {"", DiffOf(called[k].ev.file)}

\* the diff of the event's file was passed, and the sidecar has since been
\* overwritten by the edit of another file
C18_Witness ==
    /\ Len(called) = 1
    /\ called[1].ev.file = "a.ts"
    /\ called[1].diff = DiffOf("a.ts")
    /\ sidecar.kind = "json"
    /\ sidecar.file = "b.ts"

\* a handler of the restarted process has read the log and is at its loop
ObservedAgain == lostJobs # {} /\ \E h \in Pending : h.pc = "loaded"

\* the loop of a handler enqueues the event of timestamp ts
ReEnqueue(ts) ==
    \E h \in Pending :
        /\ Continue(h)
        /\ \E k \in (Len(enqueued) + 1)..Len(enqueued') : enqueued'[k].timestamp = ts

\* C19 as stated: after a restart, when the log is next observed, the event
\* of a job that the restart has ended before its completion can be
\* enqueued again.
C19_CanBeRetried ==
    ObservedAgain => \A ts \in lostJobs : ENABLED ReEnqueue(ts)

\* C19 amended: the event of a job that a restart has ended is never enqueued
\* again: the restarted process has a new session id and reads only the
\* events of its own session.
C19_NeverRetried ==
    \A ts \in lostJobs : TimesEnqueued(ts) = 1

\* the restarted process has read the log, which still holds the event of a
\* job the restart has ended, and what it has read does not hold it
C19_Witness ==
    /\ lostJobs # {}
    /\ currentSessionId = AllIds[2]
    /\ \A ts \in lostJobs :
          \E k \in 1..Len(WatchedEvents) :
              WatchedEvents[k].timestamp = ts /\ IsRisky(WatchedEvents[k])
    /\ \E h \in Pending :
          /\ h.pc = "loaded"
          /\ h.sid = AllIds[2]
          /\ h.events # <<>>
          /\ \A k \in 1..Len(h.events) : h.events[k].timestamp \notin lostJobs

\* C20: whatever the RiskInput, the score computeRiskScore returns is at
\* least 0 and at most 100.
C20_ScoreInRange ==
    riskResult # NoScore => riskResult.score >= 0 /\ riskResult.score <= 100

\* every rule that adds has fired: the points add up to 140 and 100 is returned
C20_Witness ==
    /\ riskResult # NoScore
    /\ RawScore(riskInput) = 140
    /\ riskResult.score = 100

\* the sum of the points of a list of reasons
RECURSIVE SumPoints(_)
SumPoints(reasons) ==
    IF reasons = <<>> THEN 0
    ELSE Head(reasons).points + SumPoints(Tail(reasons))

\* C21: the score returned is the sum S of the points of the reasons returned,
\* clamped to 0..100: S itself when 0 <= S <= 100, 100 when S > 100, and 0
\* when the test-file deduction makes S negative.
C21_ScoreIsClampedSum ==
    riskResult # NoScore =>
        LET S == SumPoints(riskResult.reasons)
        IN  /\ S > 100 => riskResult.score = 100
            /\ S < 0 => riskResult.score = 0
            /\ S < 0 => \E i \in 1..Len(riskResult.reasons) :
                            riskResult.reasons[i] = Reason("test_file", -10)
            /\ (S >= 0 /\ S <= 100) => riskResult.score = S

\* a test file to which no other rule applies: the points sum to -10, 0 is returned
C21_Witness ==
    /\ riskResult # NoScore
    /\ SumPoints(riskResult.reasons) = -10
    /\ riskResult.score = 0

\* how many of the reasons carry one of the rules
CountRules(reasons, rules) ==
    Cardinality({i \in 1..Len(reasons) : reasons[i].rule \in rules})

\* C22: the reasons hold at most one structural-tier reason and at most one
\* deletion-tier reason: structural_change_high never comes with
\* structural_change_medium, nor deleted_functions_high with deleted_functions_low.
C22_TiersExclusive ==
    riskResult # NoScore =>
        /\ CountRules(riskResult.reasons,
                      {"structural_change_high", "structural_change_medium"}) <= 1
        /\ CountRules(riskResult.reasons,
                      {"deleted_functions_high", "deleted_functions_low"}) <= 1

\* both conditions of each tier hold (76 > 75 > 50, 4 > 3 > 0): only the high
\* reasons are there
C22_Witness ==
    /\ riskResult # NoScore
    /\ riskInput.structuralChangePercent = Num(76)
    /\ riskInput.deletedFunctions = Num(4)
    /\ CountRules(riskResult.reasons, {"structural_change_high"}) = 1
    /\ CountRules(riskResult.reasons, {"structural_change_medium"}) = 0
    /\ CountRules(riskResult.reasons, {"deleted_functions_high"}) = 1
    /\ CountRules(riskResult.reasons, {"deleted_functions_low"}) = 0

\* the level the thresholds give to a score
LevelOf(score) ==
    CHOOSE l \in {"low", "medium", "high"} :
        /\ l = "low" <=> score <= 30
        /\ l = "medium" <=> (31 <= score /\ score <= 60)
        /\ l = "high" <=> score >= 61

\* C23: the level returned depends on the score returned alone: low exactly
\* when score <= 30, medium exactly when 31 <= score <= 60, high exactly when
\* score >= 61.
C23_LevelByScore ==
    /\ riskResult # NoScore => riskResult.level = LevelOf(riskResult.score)
    /\ \A score \in 0..100 : levelFromScore(score) = LevelOf(score)

\* a score on a threshold: 60 is still medium
C23_Witness ==
    /\ riskResult # NoScore
    /\ riskResult.score = 60
    /\ riskResult.level = "medium"

\* the reasons of the rules whose condition holds, in the fixed order
Holds(cond, rule, points) == IF cond THEN <<Reason(rule, points)>> ELSE <<>>
Above(x, c) == ~x.nan /\ x.v > c
ExpectedReasons(input) ==
       Holds(isProtectedPath(input.filePath), "protected_path", 30)
    \o Holds(Above(input.structuralChangePercent, 75), "structural_change_high", 40)
    \o Holds(/\ ~Above(input.structuralChangePercent, 75)
             /\ Above(input.structuralChangePercent, 50), "structural_change_medium", 25)
    \o Holds(Above(input.deletedFunctions, 3), "deleted_functions_high", 35)
    \o Holds(/\ ~Above(input.deletedFunctions, 3)
             /\ Above(input.deletedFunctions, 0), "deleted_functions_low", 20)
    \o Holds(~input.sanityPassed, "sanity_failed", 20)
    \o Holds(Above(input.diffLineCount, 200), "large_diff", 15)
    \o Holds(isTestFile(input.filePath), "test_file", -10)

\* C24: the reason list holds exactly the rules whose condition holds, each
\* once and in the fixed order protected_path (+30), structural tier (+40 iff
\* percent > 75, else +25 iff percent > 50), deletion tier (+35 iff deleted > 3,
\* else +20 iff deleted > 0), sanity_failed (+20), large_diff (+15 iff lines >
\* 200), test_file (-10); a value on a threshold does not fire that rule; when
\* no rule fires the result is score 0, level low, no reasons.
C24_ReasonsAsRules ==
    riskResult # NoScore =>
        /\ riskResult.reasons = ExpectedReasons(riskInput)
        /\ riskResult.reasons = <<>> =>
               riskResult.score = 0 /\ riskResult.level = "low"

\* every number on its threshold: 75 fires the medium tier only, 3 the low
\* tier only, 200 nothing
C24_Witness ==
    /\ riskResult # NoScore
    /\ riskInput.structuralChangePercent = Num(75)
    /\ riskInput.deletedFunctions = Num(3)
    /\ riskInput.diffLineCount = Num(200)
    /\ riskInput.sanityPassed
    /\ riskResult.reasons =
          <<Reason("structural_change_medium", 25), Reason("deleted_functions_low", 20)>>

\* the two files the analyzer was called with
BeforeFile == snapshots[analyzeArgs.before]
AfterFile == snapshots[analyzeArgs.after]
Analyzed == analysis # NoAnalysis

\* C25: a readable snapshot analysed against an identical one gives
\* structuralChangePercent 0, deletedFunctions 0 and deletedExports 0, and no
\* error field.
C25_IdenticalIsZero ==
    (Analyzed /\ BeforeFile.readable /\ BeforeFile = AfterFile) =>
        analysis = AnalysisOf(NoError, 0, 0, 0)

\* two files with the same functions and exports in them
C25_Witness ==
    /\ Analyzed
    /\ analyzeArgs.before # analyzeArgs.after
    /\ BeforeFile.readable
    /\ BeforeFile = AfterFile
    /\ FunctionNames(BeforeFile.content) # {}
    /\ ExportNames(BeforeFile.content) # {}
    /\ analysis = AnalysisOf(NoError, 0, 0, 0)

\* the symbol names of two snapshots of numbered functions
NamesBefore == {d.n : d \in BeforeFile.content}
NamesAfter == {d.n : d \in AfterFile.content}

\* 100 * changed / total rounded to the nearest integer, a half going up
RoundedPercent(changed, total) ==
    CHOOSE r \in 0..100 : 2 * total * r <= 200 * changed + total
                          /\ 200 * changed + total < 2 * total * (r + 1)

\* C26: for all sets B and A of symbol names, structuralChangePercent is
\* 100 * (|B - A| + |A - B|) / (|B| + |A|) rounded to the nearest integer, a
\* half going up, and 0 when both sets are empty; it lies in 0..100.
C26_PercentRounded ==
    Analyzed =>
        LET changed == Cardinality(NamesBefore \ NamesAfter)
                       + Cardinality(NamesAfter \ NamesBefore)
            total == Cardinality(NamesBefore) + Cardinality(NamesAfter)
        IN  /\ analysis.structuralChangePercent \in 0..100
            /\ analysis.structuralChangePercent =
                  (IF total = 0 THEN 0 ELSE RoundedPercent(changed, total))

\* C27: analyzeStructuralChange never throws; when the before path or the
\* after path does not exist the result is the error "File not found: <path>"
\* of the missing path (the before path when both are missing) with the three
\* numbers 0; every result carries the three numbers.
C27_MissingPathReported ==
    Analyzed =>
        /\ ~analysis.threw
        /\ ~BeforeFile.exists =>
              analysis = AnalysisOf(FileNotFound(analyzeArgs.before), 0, 0, 0)
        /\ (BeforeFile.exists /\ ~AfterFile.exists) =>
              analysis = AnalysisOf(FileNotFound(analyzeArgs.after), 0, 0, 0)
        /\ analysis.structuralChangePercent \in Nat
        /\ analysis.deletedFunctions \in Nat
        /\ analysis.deletedExports \in Nat

\* neither path exists: the before path is the one named
C27_Witness ==
    /\ Analyzed
    /\ analyzeArgs.before # analyzeArgs.after
    /\ ~BeforeFile.exists
    /\ ~AfterFile.exists
    /\ analysis.error = FileNotFound(analyzeArgs.before)

\* the function-like symbol names of a snapshot: the named top-level
\* functions, the methods as Class.method, the variables bound to something
\* function-shaped
FunctionLike(content) ==
    {[cls |-> "", base |-> d.base, n |-> d.n] :
        d \in {d \in content :
                  /\ d.base # ""
                  /\ \/ d.kind = "function"
                     \/ d.kind = "variable"
                        /\ d.init \in {"() => {}", "function () {}", "'a => b'"}}}
    \cup {[cls |-> IF d.cls = "" THEN "<anonymous>" ELSE d.cls,
           base |-> d.base, n |-> d.n] :
            d \in {d \in content : d.kind = "method"}}

\* the names a snapshot exports
Exported(content) ==
    {[cls |-> "", n |-> d.n,
      base |-> IF d.kind = "method" THEN (IF d.cls = "" THEN "default" ELSE d.cls)
               ELSE IF d.base = "" THEN "default" ELSE d.base] :
        d \in {d \in content : d.exported}}

\* C28: deletedFunctions is the number of function-like names of the before
\* snapshot that the after snapshot lacks, deletedExports the number of
\* exported names it lacks; names only added count for neither, a method is
\* counted as Class.method, and 0 <= deletedFunctions <= |before|.
C28_DeletedCounts ==
    (Analyzed /\ BeforeFile.readable /\ AfterFile.readable) =>
        /\ analysis.deletedFunctions =
              Cardinality(FunctionLike(BeforeFile.content) \ FunctionLike(AfterFile.content))
        /\ analysis.deletedExports =
              Cardinality(Exported(BeforeFile.content) \ Exported(AfterFile.content))
        /\ analysis.deletedFunctions >= 0
        /\ analysis.deletedFunctions <= Cardinality(FunctionLike(BeforeFile.content))

\* the method Task.run gives way to a function run: one function deleted,
\* the function added not counted, one export (Task) deleted
C28_Witness ==
    /\ Analyzed
    /\ BeforeFile = Snapshot({MethodDecl("Task", "run", TRUE)})
    /\ AfterFile = Snapshot({FunctionDecl("run", 0, TRUE)})
    /\ analysis.deletedFunctions = 1
    /\ analysis.deletedExports = 1

\* C29: the sanity check stops at the first failure: once a tool of the run
\* has failed, no later tool of the pipeline is run for that edit.
C29_StopsAtFirstFailure ==
    \A i \in 1..Len(toolsRun) : ~toolsRun[i].passed => i = Len(toolsRun)

\* the runs of the sanity check on the file so far have ended
SanityEnded == sanityPc = "idle" /\ sanityRuns > 0

\* Math.min
MinOf(a, b) == IF a <= b THEN a ELSE b

FiredEvents == [k \in 1..Len(fired) |-> fired[k].ev]

\* C31: jobs are dispatched in the order in which they were enqueued: the
\* closures called so far are, in order, the first of those enqueued, also
\* when a job is enqueued while the drain loop is in its pacing wait.
C31_FifoOrder ==
    /\ Len(fired) <= Len(enqueued)
    /\ FiredEvents = Prefix(enqueued, Len(fired))

\* two jobs fired in their order; the third, enqueued while the loop was in
\* its pacing wait, is the one the loop now waits for
C31_Witness ==
    /\ Len(enqueued) = 3
    /\ FiredEvents = SubSeq(enqueued, 1, 2)
    /\ enqueued[3].timestamp \in queuedBehind
    /\ geminiQueue = <<>>
    /\ drainTimer.set
    /\ drainTimer.fn = enqueued[3]

\* a drain loop is at its pacing wait: between two steps of the process this
\* is the only place a loop can be at
LoopWaiting == drainTimer.set

\* C32: at most one drain loop is active at any time and no wake-up is lost:
\* whenever the queue is non-empty geminiDraining is true and a loop is at
\* its wait, the flag is false only when the queue is empty, a loop waits
\* only under the flag, and a waiting loop is never joined or replaced by
\* another: its wait ends only by its own wake-up, which fires its closure.
C32_OneDrainLoop ==
    /\ [](/\ geminiQueue # <<>> => geminiDraining /\ LoopWaiting
          /\ ~geminiDraining => geminiQueue = <<>> /\ ~LoopWaiting
          /\ LoopWaiting => geminiDraining)
    /\ [][(LoopWaiting /\ drainTimer' # drainTimer) =>
              /\ now >= drainTimer.at
              /\ Len(fired') > Len(fired)
              /\ fired'[Len(fired) + 1].ev = drainTimer.fn]_vars

\* a job is on the queue behind the closure a loop waits for, one job fired
C32_Witness ==
    /\ Len(fired) = 1
    /\ geminiDraining
    /\ LoopWaiting
    /\ Len(enqueued) = 3
    /\ drainTimer.fn = enqueued[2]
    /\ geminiQueue = <<enqueued[3]>>
    /\ now < drainTimer.at

\* the pacing wait of the loop is over
WaitOver == drainTimer.set /\ now >= drainTimer.at

\* C33: the drain loop does not wait for a dispatched job to finish: as soon
\* as the pacing wait is over the next closure can be called, whatever the
\* runs in flight are doing, be they slow or never returning.
C33_FireAndForget == WaitOver => ENABLED DrainResume

\* three runs in flight at once, none of them past its first await, each
\* fired the moment the interval since the previous call had elapsed
C33_Witness ==
    /\ Len(fired) = 3
    /\ Len(inflight) = 3
    /\ \A j \in 1..3 : inflight[j].pc = "sidecar" /\ inflight[j].ev = fired[j].ev
    /\ \A k \in 1..2 : fired[k + 1].at = fired[k].at + GEMINI_MIN_INTERVAL_MS

\* the appends of the extension that have settled with their event written
Succeeded == {i \in Settled("ext") : calls["ext"][i].fault = "none"}

\* those of them whose read of the log failed: they started from []
StartedFresh == {i \in Succeeded : calls["ext"][i].readErr}

\* the events of the calls in I, in call order
EventsOf(I) == [k \in 1..Cardinality(I) |-> calls["ext"][Kth(I, k)].ev]

\* every appendEvent call made is started and its promise resolves
AppendsResolve ==
    \A i \in 1..MaxCalls :
        (Len(calls["ext"]) >= i)
            ~> (Len(calls["ext"]) >= i /\ calls["ext"][i].promise = "fulfilled")

\* C34 as stated: a failed append does not block the write queue: every
\* later append still runs and its promise resolves in the end, and the
\* events of the successful appends are all in the log, in call order.
C34_AllSuccessfulPresent ==
    /\ AppendsResolve
    /\ [](Succeeded # {} =>
            /\ IsCompleteArray(fs[Canon])
            /\ SelectSeq(LogEvents,
                         LAMBDA e : \E i \in Succeeded : calls["ext"][i].ev = e)
                  = EventsOf(Succeeded))

\* C34 amended: every later append still runs and its promise resolves in
\* the end; the log holds, in call order, the events of the successful
\* appends from the last one whose read of the log failed on (that append
\* started from the empty sequence), or, when no read failed, the initial
\* events followed by the events of all successful appends.
C34_PresentSinceReset ==
    /\ AppendsResolve
    /\ [](IF Succeeded = {} THEN fs[Canon] = log0
          ELSE /\ IsCompleteArray(fs[Canon])
               /\ LogEvents =
                     IF StartedFresh = {}
                     THEN InitEvents \o EventsOf(Succeeded)
                     ELSE EventsOf({i \in Succeeded :
                                      \A r \in StartedFresh : i >= r}))

\* the first append failed at its rename, the second ran and is in the log
\* behind the initial event
C34_Witness ==
    /\ Len(calls["ext"]) = 2
    /\ AllSettled("ext")
    /\ calls["ext"][1].fault = "rename"
    /\ calls["ext"][2].fault = "none"
    /\ ~calls["ext"][2].readErr
    /\ Len(InitEvents) = 1
    /\ LogEvents = Append(InitEvents, calls["ext"][2].ev)

\* the enrichment events in the log of the watched workspace
Enrichments ==
    {WatchedEvents[k] : k \in {n \in 1..Len(WatchedEvents) :
                                  WatchedEvents[n].type = "llm-analysis"}}

\* C35: every enrichment event appended carries the sessionId of its
\* originating risk-assessed event, however deactivate and activate fall
\* between the enqueue of a job and its firing.
C35_SessionOfOrigin ==
    \A e \in Enrichments :
        \E k \in 1..Len(fired) :
            /\ fired[k].ev.timestamp = e.related
            /\ e.sessionId = fired[k].ev.sessionId

\* the timestamps of the qualifying events in the log
QualifyingTimestamps ==
    {WatchedEvents[k].timestamp :
        k \in {n \in 1..Len(WatchedEvents) :
                  /\ WatchedEvents[n].type = "risk-assessed"
                  /\ WatchedEvents[n].level \in {"medium", "high"}}}

\* nothing is queued, no drain loop runs, no run is in flight
Quiet ==
    /\ geminiQueue = <<>>
    /\ ~geminiDraining
    /\ ~drainTimer.set
    /\ inflight = <<>>

\* C36: enrichment does not feed itself: no llm-analysis event is ever
\* enqueued, the number of runs started (and so of external calls) never
\* exceeds the number of distinct timestamps of qualifying events in the
\* log, and with the finitely many events of the hooks the system ends up
\* quiescent: queue empty, drain loop stopped, no job in flight.
C36_NoSelfFeeding ==
    /\ [](/\ \A k \in 1..Len(enqueued) : enqueued[k].type = "risk-assessed"
          /\ Len(fired) <= Cardinality(QualifyingTimestamps)
          /\ Len(enqueued) <= Cardinality(QualifyingTimestamps))
    /\ <>[]Quiet

\* an enrichment is in the log, the handler of a later notification has
\* read it and is about to go through its events, every job enqueued has
\* been fired and all is quiet
C36_Witness ==
    /\ Len(fired) >= 1
    /\ Len(enqueued) = Len(fired)
    /\ Quiet
    /\ \E h \in Pending :
          /\ h.pc = "loaded"
          /\ \E k \in 1..Len(h.events) :
                /\ h.events[k].type = "llm-analysis"
                /\ h.events[k].related = fired[1].ev.timestamp

\* the first event of the log that qualifies by type and level and has the
\* timestamp and the session of e
FirstOfTimestamp(e) ==
    LET same == {n \in 1..Len(WatchedEvents) :
                    /\ WatchedEvents[n].type = "risk-assessed"
                    /\ WatchedEvents[n].level \in {"medium", "high"}
                    /\ WatchedEvents[n].timestamp = e.timestamp
                    /\ WatchedEvents[n].sessionId = e.sessionId}
    IN  WatchedEvents[CHOOSE n \in same : \A m \in same : n <= m]

\* C37: the identity used for deduplication is the timestamp alone and the
\* dedup set only grows: no event bearing a recorded timestamp is enqueued
\* again in the process, and of distinct qualifying events with one
\* timestamp only the first in the log is enqueued and run.
C37_TimestampIsIdentity ==
    /\ [](/\ \A k \in 1..Len(enqueued) :
                /\ enqueued[k].timestamp \in processedRiskTimestamps
                /\ enqueued[k] = FirstOfTimestamp(enqueued[k])
          /\ \A i, k \in 1..Len(enqueued) :
                enqueued[i].timestamp = enqueued[k].timestamp => i = k
          /\ \A k \in 1..Len(fired) : fired[k].ev = FirstOfTimestamp(fired[k].ev))
    /\ [][/\ processedRiskTimestamps \subseteq processedRiskTimestamps'
          /\ \A k \in (Len(enqueued) + 1)..Len(enqueued') :
                enqueued'[k].timestamp \notin processedRiskTimestamps]_vars

\* both events of the one timestamp are in the log, the first was enqueued,
\* run and enriched, and the handler of a later notification has read the
\* second and is about to meet it
C37_Witness ==
    /\ WatchedEvents = Append(DupLog, WatchedEvents[Len(WatchedEvents)])
    /\ WatchedEvents[3].type = "llm-analysis"
    /\ WatchedEvents[3].related = DupLog[1].timestamp
    /\ DupLog[1] # DupLog[2]
    /\ enqueued = <<DupLog[1]>>
    /\ inflight = <<>>
    /\ \E h \in Pending : h.pc = "loaded" /\ Len(h.events) = 3 /\ h.events[2] = DupLog[2]

\* C38: no enqueue happens while there is no active session: from deactivate
\* until the next activate no step enqueues a job or adds to the dedup set.
C38_NoEnqueueWithoutSession ==
    [][currentSessionId = NoSession =>
          /\ enqueued' = enqueued
          /\ geminiQueue' = geminiQueue
          /\ processedRiskTimestamps' = processedRiskTimestamps]_vars

\* a <= b for two numbers; NaN is ordered with nothing
AtMost(a, b) == ~a.nan /\ ~b.nan /\ a.v <= b.v

\* `input` with one of its numbers replaced by a value at least as large, or
\* with sanityPassed changed from true to false; filePath as it is
Worse(input) ==
         {[input EXCEPT !.structuralChangePercent = p] :
              p \in {q \in PercentPool : AtMost(input.structuralChangePercent, q)}}
    \cup {[input EXCEPT !.deletedFunctions = d] :
              d \in {q \in DeletedPool : AtMost(input.deletedFunctions, q)}}
    \cup {[input EXCEPT !.diffLineCount = n] :
              n \in {q \in DiffLinePool : AtMost(input.diffLineCount, q)}}
    \cup (IF input.sanityPassed
          THEN {[input EXCEPT !.sanityPassed = FALSE]} ELSE {})

LevelRank(level) ==
    IF level = "low" THEN 1 ELSE IF level = "medium" THEN 2 ELSE 3

\* C39: with filePath fixed, the score computeRiskScore returns does not go
\* down when structuralChangePercent, deletedFunctions or diffLineCount grows
\* or sanityPassed goes from true to false, and the level does not drop.
C39_Monotone ==
    riskResult # NoScore =>
        \A worse \in Worse(riskInput) :
            /\ computeRiskScore(worse).score >= riskResult.score
            /\ LevelRank(computeRiskScore(worse).level)
                   >= LevelRank(riskResult.level)

\* one more deleted function (3 to 4) moves the deletion tier from low to
\* high: 20 points become 35 and the level goes from low to medium
C39_Witness ==
    /\ riskResult # NoScore
    /\ riskInput.deletedFunctions = Num(3)
    /\ riskResult.score = 20
    /\ riskResult.level = "low"
    /\ LET worse == [riskInput EXCEPT !.deletedFunctions = Num(4)]
       IN  /\ worse \in Worse(riskInput)
           /\ computeRiskScore(worse).score = 35
           /\ computeRiskScore(worse).level = "medium"

====
